---- MODULE Spec2Model ----
(***************************************************************************)
(* Order-book depth pipeline: the feed manager (class WebSocketManager of  *)
(* src/src/hooks/useOrderbookData.ts) and the bounded histories of the     *)
(* OrderbookProcessor (src/unnamed/part_002).                              *)
(*                                                                         *)
(* The feed manager is a set of timers and pending HTTP requests.  Every   *)
(* action below is one run-to-completion JavaScript task: a timer callback *)
(* up to its first await, or the continuation of an awaited fetch.  The    *)
(* two awaits of one request (fetch, response.json()) and the fallback     *)
(* fetch change no manager state between them and are one step.            *)
(***************************************************************************)
EXTENDS Integers, Sequences, FiniteSets, TLC

(* ------------------------------------------------------------------ *)
(* Bounds of the exploration                                           *)
(* ------------------------------------------------------------------ *)
\* requests of one venue's polling loop that may be pending at once
MaxInFlight == 2
\* interval-timer identifiers per venue that are distinguished
MaxIntervals == 2
\* connect requests of one venue that may be pending at once
MaxConnects == 2
\* requests (connects and polls, all venues together) that fail in a run of Spec
MaxFailures == 1
\* the same budget for the single-venue outage explored by SpecOutage
OutageFailures == 13
\* the same budget for the one venue and its clients explored by SpecVenue
MaxVenueFailures == 4
\* ticks of the 30 s data-quality timer explored by SpecShutdown
MaxMonitorTicks == 2
\* snapshots of the second venue+symbol key that SpecProcessor ingests
MaxOtherKey == 2
\* a snapshot other than the regular book (one with an empty side, one with
\* several unsorted levels) arrives only among the first MaxEarlyOdd of the
\* key that is filled to capacity
MaxEarlyOdd == 1
\* snapshots one key ingests beyond the capacity of its stores
MaxOverflow == 3

\* levels of one side of a raw payload handed to a parser by SpecParser
MaxRawLevels == 3

\* snapshots each venue+symbol key ingests before a query in SpecMerge
MaxMergeArrivals == 2
\* venues a query of SpecMerge lists
MaxListed == 2

\* levels of the book side handed to calculateMarketImpact by SpecImpact
MaxImpactLevels == 3

\* levels of the side handed to enhancedClusterLevels by SpecCluster
MaxClusterLevels == 3

\* levels of the bid side handed to detectPressureZones by SpecDetector
MaxZoneLevels == 4
\* calls of detectPressureZones in one behaviour of SpecDetector
MaxDetectCalls == 2

\* snapshots ingested before an analysis is asked for in SpecAnalysis
MaxSamples == 12
\* leading snapshots of SpecAnalysis whose spread moves freely; the spread then
\* keeps its last step
MaxFreeSamples == 3

\* snapshots ingested before the volume profile is asked for in SpecProfile
MaxProfileSnapshots == 3

\* orderbooks handed to generateMarketDepthHeatmap by SpecHeatmap
MaxHeatBooks == 2

\* levels of the short sides handed to detectImbalances by SpecImbalance
MaxImbalanceLevels == 2

\* calls of detectPressureZones in one behaviour of SpecHistory
MaxHistoryCalls == 102
\* leading calls of SpecHistory that may carry a book other than LadderBook
MaxEarlyDetect == 1

\* calls of detectPressureZones in one behaviour of SpecPrediction
MaxPredictionCalls == 4

\* levels on the longest bid side of SpecWide
MaxWideLevels == 11

(* ------------------------------------------------------------------ *)
(* Program constants                                                    *)
(* ------------------------------------------------------------------ *)
Venues == {"binance", "okx", "bybit"}
maxReconnectAttempts == 8
\* quality.consecutiveErrors >= 3 marks the venue failed
FailureThreshold == 3

\* the callbacks a client may pass to subscribe()
Callbacks == {"cb1", "cb2"}

NoTimer == -1
NoInterval == 0
IntervalIds == 1..MaxIntervals

(* ------------------------------------------------------------------ *)
(* Numbers as the venues send them: strings, read with parseFloat      *)
(* ------------------------------------------------------------------ *)
NaN == -1000000

parseFloat(s) ==
    CASE s = "0" -> 0
      [] s = "1" -> 1
      [] s = "2" -> 2
      [] s = "3" -> 3
      [] s = "4" -> 4
      [] s = "-1" -> -1
      [] OTHER -> NaN

isNaN(x) == x = NaN

\* .map(([price, quantity]) => ({price: parseFloat(price), quantity: parseFloat(quantity)}))
MapLevel(e) == [price |-> parseFloat(e[1]), quantity |-> parseFloat(e[2])]

\* .filter(item => !isNaN(item.price) && !isNaN(item.quantity) && item.price > 0 && item.quantity > 0)
ValidLevel(item) ==
    /\ ~isNaN(item.price)
    /\ ~isNaN(item.quantity)
    /\ item.price > 0
    /\ item.quantity > 0

RECURSIVE MapFilter(_)
MapFilter(raw) ==
    IF raw = <<>> THEN <<>>
    ELSE LET item == MapLevel(Head(raw))
             rest == MapFilter(Tail(raw))
         IN  IF ValidLevel(item) THEN <<item>> \o rest ELSE rest

\* Array.prototype.sort is stable: an element is inserted behind the elements
\* the comparator does not order after it.
RECURSIVE InsertSorted(_, _, _)
InsertSorted(item, sorted, dir) ==
    IF sorted = <<>> THEN <<item>>
    ELSE LET cmp == IF dir = "desc" THEN item.price - Head(sorted).price
                                    ELSE Head(sorted).price - item.price
         IN  IF cmp > 0 THEN <<item>> \o sorted
             ELSE <<Head(sorted)>> \o InsertSorted(item, Tail(sorted), dir)

RECURSIVE SortLevels(_, _)
SortLevels(levels, dir) ==
    IF levels = <<>> THEN <<>>
    ELSE InsertSorted(levels[Len(levels)], SortLevels(SubSeq(levels, 1, Len(levels) - 1), dir), dir)

ParseSide(raw, dir) == SortLevels(MapFilter(raw), dir)

(* ------------------------------------------------------------------ *)
(* JSON values of a response body                                       *)
(* ------------------------------------------------------------------ *)
Undefined == [type |-> "undefined"]
JArray(items) == [type |-> "array", items |-> items]
JObject(fields) == [type |-> "object", fields |-> fields]

\* x.name: an array parsed from JSON has no named property but length
Get(x, name) ==
    IF x.type = "object" /\ name \in DOMAIN x.fields THEN x.fields[name] ELSE Undefined

\* x[i], i counted from 0
At(x, i) ==
    IF x.type = "array" /\ i + 1 <= Len(x.items) THEN x.items[i + 1] ELSE Undefined

Truthy(x) == x.type # "undefined"
isArray(x) == x.type = "array"
Length(x) == Len(x.items)
\* (x || [])
OrEmpty(x) == IF Truthy(x) THEN x.items ELSE <<>>

validateBinanceData(data) ==
    /\ Truthy(data)
    /\ Truthy(Get(data, "bids"))
    /\ Truthy(Get(data, "asks"))
    /\ isArray(Get(data, "bids"))
    /\ isArray(Get(data, "asks"))
    /\ Length(Get(data, "bids")) > 0
    /\ Length(Get(data, "asks")) > 0

validateOKXData(data) ==
    /\ Truthy(data)
    /\ Truthy(Get(data, "data"))
    /\ isArray(Get(data, "data"))
    /\ Truthy(At(Get(data, "data"), 0))
    /\ Truthy(Get(Get(data, "data"), "bids"))
    /\ Truthy(Get(Get(data, "data"), "asks"))
    /\ isArray(Get(Get(data, "data"), "bids"))
    /\ isArray(Get(Get(data, "data"), "asks"))

validateBybitData(data) ==
    /\ Truthy(data)
    /\ Truthy(Get(data, "result"))
    /\ Truthy(Get(Get(data, "result"), "b"))
    /\ Truthy(Get(Get(data, "result"), "a"))
    /\ isArray(Get(Get(data, "result"), "b"))
    /\ isArray(Get(Get(data, "result"), "a"))

validateData(venue, data) ==
    CASE venue = "binance" -> validateBinanceData(data)
      [] venue = "okx" -> validateOKXData(data)
      [] venue = "bybit" -> validateBybitData(data)

(* ------------------------------------------------------------------ *)
(* Parsers: a value, or an exception                                    *)
(* ------------------------------------------------------------------ *)
NoSnapshot == [venue |-> "none", symbol |-> "none", bids |-> <<>>, asks |-> <<>>]
Returns(value) == [thrown |-> FALSE, value |-> value]
Throws == [thrown |-> TRUE, value |-> NoSnapshot]

parseBinanceOrderbook(data) ==
    IF ~validateBinanceData(data) THEN Throws
    ELSE LET bids == ParseSide(Get(data, "bids").items, "desc")
             asks == ParseSide(Get(data, "asks").items, "asc")
         IN  IF Len(bids) = 0 \/ Len(asks) = 0 THEN Throws
             ELSE Returns([venue |-> "Binance", symbol |-> "BTCUSDT",
                           bids |-> bids, asks |-> asks])

parseOKXOrderbook(data) ==
    Returns([venue |-> "OKX", symbol |-> "BTC-USDT",
             bids |-> ParseSide(OrEmpty(Get(data, "bids")), "desc"),
             asks |-> ParseSide(OrEmpty(Get(data, "asks")), "asc")])

parseBybitOrderbook(data) ==
    Returns([venue |-> "Bybit", symbol |-> "BTCUSDT",
             bids |-> ParseSide(OrEmpty(Get(data, "b")), "desc"),
             asks |-> ParseSide(OrEmpty(Get(data, "a")), "asc")])

\* the argument each polling loop hands to its parser, and the parser
parseOrderbook(venue, data) ==
    CASE venue = "binance" -> parseBinanceOrderbook(data)
      [] venue = "okx" -> parseOKXOrderbook(At(Get(data, "data"), 0))
      [] venue = "bybit" -> parseBybitOrderbook(Get(data, "result"))

\* calculateCompleteness(bids, asks) reads bids.length and asks.length: the OKX
\* loop passes data.data.asks, which is undefined
completenessThrows(venue, data) ==
    CASE venue = "binance" -> FALSE
      [] venue = "okx" ->
            \/ ~Truthy(Get(At(Get(data, "data"), 0), "bids"))
            \/ ~Truthy(Get(Get(data, "data"), "asks"))
      [] venue = "bybit" -> FALSE

(* ------------------------------------------------------------------ *)
(* The network: what one depth request does                             *)
(* ------------------------------------------------------------------ *)
Level(p, q) == <<p, q>>

BinanceBody(bids, asks) == JObject([bids |-> JArray(bids), asks |-> JArray(asks)])
OKXBody(bids, asks) ==
    JObject([data |-> JArray(<<JObject([bids |-> JArray(bids), asks |-> JArray(asks)])>>)])
BybitBody(bids, asks) ==
    JObject([result |-> JObject([b |-> JArray(bids), a |-> JArray(asks)])])

NativeBody(venue, bids, asks) ==
    CASE venue = "binance" -> BinanceBody(bids, asks)
      [] venue = "okx" -> OKXBody(bids, asks)
      [] venue = "bybit" -> BybitBody(bids, asks)

GoodBids == <<Level("2", "1"), Level("1", "1")>>
GoodAsks == <<Level("3", "1"), Level("4", "2")>>
\* present, but no level survives the filter
JunkBids == <<Level("x", "1"), Level("2", "0")>>

\* an error document: none of the fields a validator looks for
ErrorBody == JObject([code |-> Undefined])

NetworkError == [throws |-> TRUE, ok |-> FALSE, body |-> Undefined]
Response(ok, body) == [throws |-> FALSE, ok |-> ok, body |-> body]
Request(primary, fallback) == [primary |-> primary, fallback |-> fallback]

\* the venue answers its primary endpoint with a book in its own schema
Healthy(venue) ==
    Request(Response(TRUE, NativeBody(venue, GoodBids, GoodAsks)), NetworkError)

Anomalous(venue) ==
    { Request(NetworkError, NetworkError),
      Request(NetworkError, Response(TRUE, NativeBody(venue, GoodBids, GoodAsks))),
      Request(Response(FALSE, ErrorBody), NetworkError),
      Request(Response(TRUE, ErrorBody), NetworkError),
      Request(Response(TRUE, NativeBody(venue, JunkBids, GoodAsks)), NetworkError),
      Request(Response(TRUE, NativeBody(venue, <<>>, GoodAsks)), NetworkError) }

Requests(venue) == {Healthy(venue)} \cup Anomalous(venue)

\* try { return await fetch(primary) } catch { return await fetch(fallback) }
fetchWithFallback(net) ==
    IF ~net.primary.throws THEN net.primary ELSE net.fallback

(* ------------------------------------------------------------------ *)
(* Fan-out                                                              *)
(* ------------------------------------------------------------------ *)
\* subscribers.forEach(callback => { try { callback(data) } catch { log } }):
\* the callbacks invoked, in the Set's insertion order, and whether an
\* exception leaves the loop
\* a mutation: forEach without the try/catch around callback(data)
RECURSIVE notifyUnguarded(_, _)
notifyUnguarded(subs, throwing) ==
    IF subs = <<>> THEN [invoked |-> <<>>, thrown |-> FALSE]
    ELSE IF Head(subs) \in throwing THEN [invoked |-> <<Head(subs)>>, thrown |-> TRUE]
    ELSE LET rest == notifyUnguarded(Tail(subs), throwing)
         IN  [invoked |-> <<Head(subs)>> \o rest.invoked, thrown |-> rest.thrown]

RECURSIVE notifySubscribers(_, _)
notifySubscribers(subs, throwing) ==
    IF subs = <<>> THEN [invoked |-> <<>>, thrown |-> FALSE]
    ELSE LET rest == notifySubscribers(Tail(subs), throwing)
         IN  [invoked |-> <<Head(subs)>> \o rest.invoked, thrown |-> rest.thrown]

(* ------------------------------------------------------------------ *)
(* One poll cycle and one connect attempt, up to the catch block        *)
(* ------------------------------------------------------------------ *)
\* the try block of the interval callback: whether it threw, whether the
\* subscribers were notified and with what, and whether it got as far as
\* lastUpdateTimes.set / consecutiveErrors = 0
pollTry(venue, net, subs, throwing) ==
    LET response == fetchWithFallback(net)
        quiet == [threw |-> TRUE, notified |-> FALSE, snapshot |-> NoSnapshot,
                  invoked |-> <<>>, reset |-> FALSE]
    IN  IF response.throws THEN quiet
        ELSE IF ~response.ok THEN quiet
        ELSE IF ~validateData(venue, response.body) THEN quiet
        ELSE LET parsed == parseOrderbook(venue, response.body)
             IN  IF parsed.thrown THEN quiet
                 ELSE LET fanout == notifySubscribers(subs, throwing)
                      IN  [threw |-> fanout.thrown
                                       \/ completenessThrows(venue, response.body),
                           notified |-> TRUE,
                           snapshot |-> parsed.value,
                           invoked |-> fanout.invoked,
                           reset |-> ~fanout.thrown]

\* the try block of connectBinance / connectOKX / connectBybit after the fetch
connectTry(venue, net) ==
    LET response == fetchWithFallback(net)
    IN  /\ ~response.throws
        /\ response.ok
        /\ validateData(venue, response.body)

\* catch (error) { quality.consecutiveErrors++; if (quality.consecutiveErrors >= 3) ... }
tooManyErrors(errors) == errors >= FailureThreshold

\* scheduleReconnect: if (attempts >= this.maxReconnectAttempts) return
breakerOpen(attempts) == attempts >= maxReconnectAttempts

\* a mutation: the interval callback without its catch block
pollEscapes == FALSE

\* catch (error) { ... } closes the try block of the interval callback
pollCatches == TRUE

(* ------------------------------------------------------------------ *)
(* State                                                                *)
(* ------------------------------------------------------------------ *)
VARIABLES
    \* fields of the WebSocketManager
    connectionStates,    \* venue -> disconnected | connecting | connected | failed
    reconnectAttempts,   \* venue -> number (a cleared map reads as 0)
    consecutiveErrors,   \* venue -> dataQuality[venue].consecutiveErrors
    lastUpdateTimes,     \* venue -> 0 (never) or 1 (the time of a delivery)
    reliability,         \* venue -> dataQuality[venue].reliability
    freshness,           \* venue -> dataQuality[venue].freshness
    pollingIntervals,    \* venue -> the interval id the map holds, or NoInterval
    reconnectTimeouts,   \* venue -> the attempts its pending timer captured, or NoTimer
    subscribers,         \* the Set of callbacks, in insertion order
    isDestroyed,
    \* the JavaScript runtime
    setupTimers,         \* venues whose first connect timer has not fired
    intervals,           \* <<venue, id>> of the interval timers that are live
    connectsInFlight,    \* venue -> connect requests awaiting their response
    pollsInFlight,       \* venue -> interval id -> poll requests awaiting their response
    \* observation
    lastEvent,           \* what the latest step delivered
    unhandled,           \* an exception left a timer callback
    attemptsUsed,        \* venue -> connects started by a reconnect timer since the
                         \*          venue's latest successful connect
    \* exploration budgets
    failures,            \* failed requests the run may still see
    ticks,               \* ticks of the data-quality timer the run may still see
    \* fields of the OrderbookProcessor
    snapshots,           \* key -> OrderbookSnapshot[]
    historicalData,      \* key -> HistoricalDataPoint[]
    spreadHistory,       \* key -> {timestamp, value}[]
    arrivals,            \* key -> snapshots ingested so far (the clock of the feed)
    \* a call of a query or of a pure function of the pipeline
    call,                \* the function called and its arguments
    result,              \* what it returned, or NoResult while it has not run
    \* field of the PressureZoneDetector
    historicalZones      \* the zones emitted so far, oldest first

managerVars == <<connectionStates, reconnectAttempts, consecutiveErrors, lastUpdateTimes,
                 pollingIntervals, reconnectTimeouts, subscribers, isDestroyed>>
qualityVars == <<reliability, freshness>>
runtimeVars == <<setupTimers, intervals, connectsInFlight, pollsInFlight>>
observerVars == <<lastEvent, unhandled, attemptsUsed>>
processorVars == <<snapshots, historicalData, spreadHistory, arrivals>>
detectorVars == <<historicalZones>>
callVars == <<call, result>>
vars == <<managerVars, qualityVars, runtimeVars, observerVars, failures, ticks, processorVars,
          detectorVars, callVars>>

NoEvent == [op |-> "none", venue |-> "none", failed |-> FALSE, notified |-> FALSE,
            snapshot |-> NoSnapshot, invoked |-> <<>>, threw |-> {}]

Range(seq) == {seq[i] : i \in 1..Len(seq)}

\* constructor: initializeStates(); setupConnections(); initializeDataQualityMonitoring()
InitManager(budget, monitorTicks) ==
    /\ connectionStates = [v \in Venues |-> "disconnected"]
    /\ reconnectAttempts = [v \in Venues |-> 0]
    /\ consecutiveErrors = [v \in Venues |-> 0]
    /\ lastUpdateTimes = [v \in Venues |-> 0]
    /\ reliability = [v \in Venues |-> 100]
    /\ freshness = [v \in Venues |-> 100]
    /\ pollingIntervals = [v \in Venues |-> NoInterval]
    /\ reconnectTimeouts = [v \in Venues |-> NoTimer]
    /\ subscribers = <<>>
    /\ isDestroyed = FALSE
    /\ setupTimers = Venues
    /\ intervals = {}
    /\ connectsInFlight = [v \in Venues |-> 0]
    /\ pollsInFlight = [v \in Venues |-> [i \in IntervalIds |-> 0]]
    /\ lastEvent = NoEvent
    /\ unhandled = FALSE
    /\ attemptsUsed = [v \in Venues |-> 0]
    /\ failures = budget
    /\ ticks = monitorTicks

(* ------------------------------------------------------------------ *)
(* Helpers of the actions                                               *)
(* ------------------------------------------------------------------ *)
PollsOf(venue) ==
    LET RECURSIVE Sum(_)
        Sum(ids) == IF ids = {} THEN 0
                    ELSE LET i == CHOOSE j \in ids : TRUE
                         IN  pollsInFlight[venue][i] + Sum(ids \ {i})
    IN  Sum(IntervalIds)

\* setInterval returns an id no live timer and no pending callback holds
FreeIds(venue) ==
    {i \in IntervalIds : <<venue, i>> \notin intervals /\ pollsInFlight[venue][i] = 0}
NewInterval(venue) == CHOOSE i \in FreeIds(venue) : \A j \in FreeIds(venue) : i <= j

\* a request is answered; one the manager counts as failed spends the budget
Answer(venue, net, fails) ==
    /\ net \in Requests(venue)
    /\ fails => failures > 0
    /\ failures' = IF fails THEN failures - 1 ELSE failures

\* a mutation: the state of every venue is written at once
setStateAll(states, venue, state) == [w \in DOMAIN states |-> state]

\* this.connectionStates.set(venue, state)
setState(states, venue, state) == [states EXCEPT ![venue] = state]

\* connectBinance / connectOKX / connectBybit up to the first await
connectStarts(venue) == ~isDestroyed /\ connectionStates[venue] # "connecting"

connectVenue(venue) ==
    IF connectStarts(venue)
    THEN /\ connectionStates' = setState(connectionStates, venue, "connecting")
         /\ connectsInFlight' = [connectsInFlight EXCEPT ![venue] = @ + 1]
    ELSE UNCHANGED <<connectionStates, connectsInFlight>>

\* scheduleReconnect(venue): the reconnect timers after the call
scheduleReconnect(venue) ==
    IF isDestroyed THEN reconnectTimeouts
    ELSE IF breakerOpen(reconnectAttempts[venue]) THEN reconnectTimeouts
    ELSE [reconnectTimeouts EXCEPT ![venue] = reconnectAttempts[venue]]

\* startBinancePolling / startOKXPolling / startBybitPolling
startPolling(venue) ==
    IF isDestroyed THEN UNCHANGED <<intervals, pollingIntervals>>
    ELSE /\ intervals' = intervals \cup {<<venue, NewInterval(venue)>>}
         /\ pollingIntervals' = [pollingIntervals EXCEPT ![venue] = NewInterval(venue)]

(* ------------------------------------------------------------------ *)
(* Actions                                                              *)
(* ------------------------------------------------------------------ *)
\* setTimeout(() => this.connectX(), 0 | 1500 | 3000) fires
SetupTimerFire(venue) ==
    /\ venue \in setupTimers
    /\ setupTimers' = setupTimers \ {venue}
    /\ connectVenue(venue)
    /\ lastEvent' = NoEvent
    /\ UNCHANGED <<reconnectAttempts, consecutiveErrors, lastUpdateTimes, pollingIntervals,
                   reconnectTimeouts, subscribers, isDestroyed, qualityVars, intervals,
                   pollsInFlight, unhandled, attemptsUsed, failures, ticks, processorVars, detectorVars, callVars>>

\* the response of a connect attempt arrives
ConnectResponse(venue, net) ==
    /\ connectsInFlight[venue] > 0
    /\ Answer(venue, net, ~connectTry(venue, net))
    /\ connectsInFlight' = [connectsInFlight EXCEPT ![venue] = @ - 1]
    /\ IF connectTry(venue, net)
       THEN /\ isDestroyed \/ FreeIds(venue) # {}
            /\ connectionStates' = setState(connectionStates, venue, "connected")
            /\ reconnectAttempts' = [reconnectAttempts EXCEPT ![venue] = 0]
            /\ consecutiveErrors' = [consecutiveErrors EXCEPT ![venue] = 0]
            /\ startPolling(venue)
            /\ attemptsUsed' = [attemptsUsed EXCEPT ![venue] = 0]
            /\ UNCHANGED reconnectTimeouts
       ELSE /\ connectionStates' = setState(connectionStates, venue, "failed")
            /\ consecutiveErrors' = [consecutiveErrors EXCEPT ![venue] = @ + 1]
            /\ reconnectTimeouts' = scheduleReconnect(venue)
            /\ UNCHANGED <<reconnectAttempts, intervals, pollingIntervals, attemptsUsed>>
    /\ lastEvent' = NoEvent
    /\ UNCHANGED <<lastUpdateTimes, subscribers, isDestroyed, qualityVars, setupTimers,
                   pollsInFlight, unhandled, ticks, processorVars, detectorVars, callVars>>

\* the interval callback runs up to its fetch
PollTimerFire(venue, id) ==
    /\ <<venue, id>> \in intervals
    /\ ~isDestroyed
    /\ PollsOf(venue) < MaxInFlight
    /\ pollsInFlight' = [pollsInFlight EXCEPT ![venue][id] = @ + 1]
    /\ lastEvent' = NoEvent
    /\ UNCHANGED <<managerVars, qualityVars, setupTimers, intervals, connectsInFlight,
                   unhandled, attemptsUsed, failures, ticks, processorVars, detectorVars, callVars>>

\* the response of a poll arrives: the rest of the interval callback
PollResponse(venue, id, net, throwing) ==
    /\ pollsInFlight[venue][id] > 0
    /\ Answer(venue, net, pollTry(venue, net, subscribers, throwing).threw)
    /\ pollsInFlight' = [pollsInFlight EXCEPT ![venue][id] = @ - 1]
    /\ LET try == pollTry(venue, net, subscribers, throwing)
           errors == (IF try.reset THEN 0 ELSE consecutiveErrors[venue]) + 1
       IN  /\ lastUpdateTimes' = IF try.reset THEN [lastUpdateTimes EXCEPT ![venue] = 1]
                                 ELSE lastUpdateTimes
           /\ lastEvent' = [op |-> "poll", venue |-> venue, failed |-> try.threw,
                            notified |-> try.notified, snapshot |-> try.snapshot,
                            invoked |-> try.invoked,
                            threw |-> throwing \cap Range(try.invoked)]
           /\ IF ~try.threw
              THEN /\ consecutiveErrors' = [consecutiveErrors EXCEPT ![venue] = 0]
                   /\ UNCHANGED <<connectionStates, intervals, reconnectTimeouts, unhandled>>
              ELSE IF ~pollCatches
              THEN /\ unhandled' = TRUE
                   /\ consecutiveErrors' = IF try.reset
                                           THEN [consecutiveErrors EXCEPT ![venue] = 0]
                                           ELSE consecutiveErrors
                   /\ UNCHANGED <<connectionStates, intervals, reconnectTimeouts>>
              ELSE /\ consecutiveErrors' = [consecutiveErrors EXCEPT ![venue] = errors]
                   /\ UNCHANGED unhandled
                   /\ IF tooManyErrors(errors)
                      THEN /\ connectionStates' = setState(connectionStates, venue, "failed")
                           /\ intervals' = intervals \ {<<venue, id>>}
                           /\ reconnectTimeouts' = scheduleReconnect(venue)
                      ELSE UNCHANGED <<connectionStates, intervals, reconnectTimeouts>>
    /\ UNCHANGED <<reconnectAttempts, pollingIntervals, subscribers, isDestroyed,
                   qualityVars, setupTimers, connectsInFlight, attemptsUsed, ticks,
                   processorVars, detectorVars, callVars>>

\* the reconnect timer of scheduleReconnect fires
ReconnectTimerFire(venue) ==
    /\ reconnectTimeouts[venue] # NoTimer
    /\ ~isDestroyed
    /\ connectStarts(venue) => connectsInFlight[venue] < MaxConnects
    /\ reconnectAttempts' =
           [reconnectAttempts EXCEPT ![venue] = reconnectTimeouts[venue] + 1]
    /\ connectVenue(venue)
    /\ reconnectTimeouts' = [reconnectTimeouts EXCEPT ![venue] = NoTimer]
    /\ attemptsUsed' = IF connectStarts(venue)
                       THEN [attemptsUsed EXCEPT ![venue] = @ + 1]
                       ELSE attemptsUsed
    /\ lastEvent' = NoEvent
    /\ UNCHANGED <<consecutiveErrors, lastUpdateTimes, pollingIntervals, subscribers,
                   isDestroyed, qualityVars, setupTimers, intervals, pollsInFlight,
                   unhandled, failures, ticks, processorVars, detectorVars, callVars>>

\* a mutation: an array of callbacks in place of the Set
pushSubscriber(subs, callback) == Append(subs, callback)

\* subscribe(callback): this.subscribers.add(callback)
addSubscriber(subs, callback) ==
    IF callback \in Range(subs) THEN subs ELSE Append(subs, callback)

\* the function subscribe() returned: this.subscribers.delete(callback)
deleteSubscriber(subs, callback) == SelectSeq(subs, LAMBDA c : c # callback)

Subscribe(callback) ==
    /\ subscribers' = addSubscriber(subscribers, callback)
    /\ lastEvent' = NoEvent
    /\ UNCHANGED <<connectionStates, reconnectAttempts, consecutiveErrors, lastUpdateTimes,
                   pollingIntervals, reconnectTimeouts, isDestroyed, qualityVars,
                   runtimeVars, unhandled, attemptsUsed, failures, ticks, processorVars, detectorVars, callVars>>

Unsubscribe(callback) ==
    /\ subscribers' = deleteSubscriber(subscribers, callback)
    /\ lastEvent' = NoEvent
    /\ UNCHANGED <<connectionStates, reconnectAttempts, consecutiveErrors, lastUpdateTimes,
                   pollingIntervals, reconnectTimeouts, isDestroyed, qualityVars,
                   runtimeVars, unhandled, attemptsUsed, failures, ticks, processorVars, detectorVars, callVars>>

\* disconnect()
Disconnect ==
    /\ isDestroyed' = TRUE
    /\ intervals' = intervals \ {<<v, pollingIntervals[v]>> : v \in Venues}
    /\ connectionStates' =
           [v \in Venues |-> IF pollingIntervals[v] # NoInterval THEN "disconnected"
                             ELSE connectionStates[v]]
    /\ reconnectTimeouts' = [v \in Venues |-> NoTimer]
    /\ pollingIntervals' = [v \in Venues |-> NoInterval]
    /\ reconnectAttempts' = [v \in Venues |-> 0]
    /\ subscribers' = <<>>
    /\ lastEvent' = NoEvent
    /\ UNCHANGED <<consecutiveErrors, lastUpdateTimes, qualityVars, setupTimers,
                   connectsInFlight, pollsInFlight, unhandled, attemptsUsed, failures, ticks, processorVars, detectorVars, callVars>>

\* every task of one venue's timers and requests
VenueStep(v) ==
    \/ SetupTimerFire(v)
    \/ \E net \in Requests(v) : ConnectResponse(v, net)
    \/ \E id \in IntervalIds : PollTimerFire(v, id)
    \/ \E id \in IntervalIds : \E net \in Requests(v) :
           \E throwing \in SUBSET Range(subscribers) : PollResponse(v, id, net, throwing)
    \/ ReconnectTimerFire(v)

\* the calls a client makes
ClientStep ==
    \/ \E c \in Callbacks : Subscribe(c)
    \/ \E c \in Callbacks : Unsubscribe(c)

Next ==
    \/ \E v \in Venues : VenueStep(v)
    \/ ClientStep
    \/ Disconnect

(* ------------------------------------------------------------------ *)
(* The data-quality timer                                               *)
(* ------------------------------------------------------------------ *)
\* milliseconds since a venue's latest delivery, one sample per band
ElapsedSamples == {1000, 3000, 7000, 20000}
NeverUpdated == 20000

\* the freshness bands of updateDataQualityMetrics
freshnessOf(timeSinceUpdate) ==
    IF timeSinceUpdate < 2000 THEN 100
    ELSE IF timeSinceUpdate < 5000 THEN 80
    ELSE IF timeSinceUpdate < 10000 THEN 50
    ELSE 0

reliabilityOf(state, old) ==
    IF state = "connected"
    THEN IF old + 1 < 100 THEN old + 1 ELSE 100
    ELSE IF old - 5 > 0 THEN old - 5 ELSE 0

\* setInterval(() => this.updateDataQualityMetrics(), 30000) fires; nothing
\* clears this timer and the callback does not read isDestroyed
MonitorTick ==
    /\ ticks > 0
    /\ ticks' = ticks - 1
    /\ \E elapsed \in [Venues -> ElapsedSamples] :
          /\ \A v \in Venues : lastUpdateTimes[v] = 0 => elapsed[v] = NeverUpdated
          /\ freshness' = [v \in Venues |-> freshnessOf(elapsed[v])]
    /\ reliability' = [v \in Venues |-> reliabilityOf(connectionStates[v], reliability[v])]
    /\ lastEvent' = NoEvent
    /\ UNCHANGED <<managerVars, runtimeVars, unhandled, attemptsUsed, failures, processorVars, detectorVars, callVars>>

(* ------------------------------------------------------------------ *)
(* OrderbookProcessor: the bounded histories                            *)
(* ------------------------------------------------------------------ *)
maxSnapshots == 1000
\* updateSpreadHistory: if (history.length > 1000) history.shift()
maxSpreadRecords == 1000

\* `${data.venue}-${data.symbol}`
keyOf(data) == <<data.venue, data.symbol>>
Keys == {<<"Binance", "BTCUSDT">>, <<"Bybit", "BTCUSDT">>}
MainKey == <<"Binance", "BTCUSDT">>

\* a mutation: the push without the shift
pushUnbounded(history, item, cap) == Append(history, item)

\* history.push(item); if (history.length > cap) history.shift()
pushBounded(history, item, cap) ==
    LET pushed == Append(history, item)
    IN  IF Len(pushed) > cap THEN Tail(pushed) ELSE pushed

RECURSIVE Accumulate(_, _)
Accumulate(sorted, cumulative) ==
    IF sorted = <<>> THEN <<>>
    ELSE LET c == cumulative + Head(sorted).quantity
         IN  <<[price |-> Head(sorted).price, quantity |-> Head(sorted).quantity,
                cumulative |-> c]>> \o Accumulate(Tail(sorted), c)

\* calculateCumulative(levels, order): a sorted copy with running totals
calculateCumulative(levels, order) == Accumulate(SortLevels(levels, order), 0)

RECURSIVE MaxPrice(_)
MaxPrice(levels) ==
    IF Len(levels) = 1 THEN levels[1].price
    ELSE LET m == MaxPrice(Tail(levels))
         IN  IF levels[1].price > m THEN levels[1].price ELSE m

RECURSIVE MinPrice(_)
MinPrice(levels) ==
    IF Len(levels) = 1 THEN levels[1].price
    ELSE LET m == MinPrice(Tail(levels))
         IN  IF levels[1].price < m THEN levels[1].price ELSE m

calculateSpread(data) ==
    IF Len(data.bids) = 0 \/ Len(data.asks) = 0 THEN 0
    ELSE MinPrice(data.asks) - MaxPrice(data.bids)

\* updateSpreadHistory(data): the new history of data's key
updateSpreadHistory(history, data) ==
    IF Len(data.bids) = 0 \/ Len(data.asks) = 0 THEN history
    ELSE pushBounded(history, [timestamp |-> data.timestamp, value |-> calculateSpread(data)],
                     maxSpreadRecords)

\* updateHistoricalData(key, data, pressureZones): the new history of the key
updateHistoricalData(history, data) ==
    pushBounded(history, [timestamp |-> data.timestamp, orderbook |-> data], maxSnapshots)

\* the snapshot addSnapshot stores
snapshotOf(data) ==
    [timestamp |-> data.timestamp,
     data |-> [venue |-> data.venue, symbol |-> data.symbol, timestamp |-> data.timestamp,
               bids |-> calculateCumulative(data.bids, "desc"),
               asks |-> calculateCumulative(data.asks, "asc")]]

\* the books a snapshot of the feed may carry
FullBook == [bids |-> <<[price |-> 2, quantity |-> 1]>>,
             asks |-> <<[price |-> 3, quantity |-> 1]>>]
DeepBook == [bids |-> <<[price |-> 1, quantity |-> 2], [price |-> 2, quantity |-> 1]>>,
             asks |-> <<[price |-> 4, quantity |-> 1], [price |-> 3, quantity |-> 2]>>]
NoBidsBook == [bids |-> <<>>, asks |-> <<[price |-> 3, quantity |-> 1]>>]
Books == {FullBook, DeepBook, NoBidsBook}

\* addSnapshot(data, pressureZones): what it does to the processor
addSnapshot(key, book) ==
    LET data == [venue |-> key[1], symbol |-> key[2], timestamp |-> arrivals[key] + 1,
                 bids |-> book.bids, asks |-> book.asks]
    IN  /\ arrivals' = [arrivals EXCEPT ![key] = @ + 1]
        /\ snapshots' = [snapshots EXCEPT
                           ![keyOf(data)] = pushBounded(@, snapshotOf(data), maxSnapshots)]
        /\ spreadHistory' = [spreadHistory EXCEPT
                               ![keyOf(data)] = updateSpreadHistory(@, data)]
        /\ historicalData' = [historicalData EXCEPT
                                ![keyOf(data)] = updateHistoricalData(@, data)]

\* a snapshot of the stream of SpecProcessor is ingested
AddSnapshot(key, book) ==
    /\ key # MainKey => arrivals[key] < MaxOtherKey
    /\ key = MainKey => arrivals[key] < maxSnapshots + MaxOverflow
    /\ book # FullBook => (key = MainKey /\ arrivals[key] < MaxEarlyOdd)
    /\ addSnapshot(key, book)
    /\ UNCHANGED <<managerVars, qualityVars, runtimeVars, observerVars, failures, ticks,
                   detectorVars, callVars>>

\* no query has been made
NoCall == [fn |-> "none"]
NoResult == [returned |-> FALSE]
NoQuery == call = NoCall /\ result = NoResult

\* constructor of OrderbookProcessor
InitProcessor ==
    /\ snapshots = [k \in Keys |-> <<>>]
    /\ historicalData = [k \in Keys |-> <<>>]
    /\ spreadHistory = [k \in Keys |-> <<>>]
    /\ arrivals = [k \in Keys |-> 0]

\* private historicalZones: PressureZone[] = []
InitDetector == historicalZones = <<>>

(* ------------------------------------------------------------------ *)
(* Specifications                                                       *)
(* ------------------------------------------------------------------ *)
\* the feed manager: three venues, its clients, shutdown
Init == InitManager(MaxFailures, 0) /\ InitProcessor /\ InitDetector /\ NoQuery

Spec == Init /\ [][Next]_vars

\* one venue through a long outage: the steps of the other venues, which
\* leave this venue's state alone, are left out
InitOutage == InitManager(OutageFailures, 0) /\ InitProcessor /\ InitDetector /\ NoQuery

NextOutage == VenueStep("binance")

SpecOutage == InitOutage /\ [][NextOutage]_vars

\* any one venue with its clients, through repeated failures and shutdown
InitVenue == InitManager(MaxVenueFailures, 0) /\ InitProcessor /\ InitDetector /\ NoQuery

\* no other venue has started
Alone(v) == Venues \ {v} \subseteq setupTimers

NextVenue ==
    \/ \E v \in Venues : Alone(v) /\ SetupTimerFire(v)
    \/ \E v \in Venues : \E net \in Requests(v) : Alone(v) /\ ConnectResponse(v, net)
    \/ \E v \in Venues : \E id \in IntervalIds : Alone(v) /\ PollTimerFire(v, id)
    \/ \E v \in Venues : \E id \in IntervalIds : \E net \in Requests(v) :
           \E throwing \in SUBSET Range(subscribers) :
               Alone(v) /\ PollResponse(v, id, net, throwing)
    \/ \E v \in Venues : Alone(v) /\ ReconnectTimerFire(v)
    \/ ClientStep
    \/ Disconnect

SpecVenue == InitVenue /\ [][NextVenue]_vars

\* one venue, the clients and the data-quality timer, through shutdown
InitShutdown == InitManager(MaxFailures, MaxMonitorTicks) /\ InitProcessor /\ InitDetector /\ NoQuery

NextShutdown ==
    \/ VenueStep("binance")
    \/ ClientStep
    \/ Disconnect
    \/ MonitorTick

SpecShutdown == InitShutdown /\ [][NextShutdown]_vars

\* the processor fed by a stream of snapshots
InitProcessorOnly == InitManager(0, 0) /\ InitProcessor /\ InitDetector /\ NoQuery

NextProcessor == \E key \in Keys : \E book \in Books : AddSnapshot(key, book)

SpecProcessor == InitProcessorOnly /\ [][NextProcessor]_vars

(* ------------------------------------------------------------------ *)
(* Calls of the queries and of the pure functions                       *)
(* ------------------------------------------------------------------ *)
\* everything but the call under study
pipelineVars == <<managerVars, qualityVars, runtimeVars, observerVars, failures, ticks,
                  processorVars, detectorVars>>

\* a pipeline nothing has happened to yet
Fresh == InitManager(0, 0) /\ InitProcessor /\ InitDetector

Returned(value) == [returned |-> TRUE, value |-> value]

\* sequences over a set, up to a length
SeqsUpTo(S, n) == UNION {[1..k -> S] : k \in 0..n}

(* -------- the venue parsers on raw payloads -------- *)
\* the decimal strings of a raw level: numbers, zero, not a number
PriceStrings == {"1", "2", "0", "x"}
QuantityStrings == {"1", "0", "x"}
RawLevels == {Level(p, q) : p \in PriceStrings, q \in QuantityStrings}
RawSides == SeqsUpTo(RawLevels, MaxRawLevels)

InitParser ==
    /\ Fresh
    /\ call \in {[fn |-> "parseOrderbook", venue |-> v, raw |-> r] : v \in Venues, r \in RawSides}
    /\ result = NoResult

\* the parser of the venue runs on a payload that carries the raw levels on both sides
ParseCall ==
    /\ call.fn = "parseOrderbook"
    /\ result = NoResult
    /\ result' = Returned(parseOrderbook(call.venue, NativeBody(call.venue, call.raw, call.raw)))
    /\ UNCHANGED <<pipelineVars, call>>

SpecParser == InitParser /\ [][ParseCall]_vars

(* -------- getMergedOrderbook -------- *)
\* mergedBids.slice(0, 20)
mergedDepth == 20

\* a mutation: priceMap.set(level.price, level.quantity), the sum forgotten
RECURSIVE overwriteInMap(_, _)
overwriteInMap(priceMap, level) ==
    IF priceMap = <<>> THEN <<[price |-> level.price, quantity |-> level.quantity]>>
    ELSE IF Head(priceMap).price = level.price
    THEN <<[price |-> level.price, quantity |-> level.quantity]>> \o Tail(priceMap)
    ELSE <<Head(priceMap)>> \o overwriteInMap(Tail(priceMap), level)

\* priceMap.set(level.price, (priceMap.get(level.price) || 0) + level.quantity):
\* the Map as its entries in insertion order
RECURSIVE addToMap(_, _)
addToMap(priceMap, level) ==
    IF priceMap = <<>> THEN <<[price |-> level.price, quantity |-> level.quantity]>>
    ELSE IF Head(priceMap).price = level.price
    THEN <<[price |-> level.price, quantity |-> Head(priceMap).quantity + level.quantity]>>
         \o Tail(priceMap)
    ELSE <<Head(priceMap)>> \o addToMap(Tail(priceMap), level)

RECURSIVE fillMap(_, _)
fillMap(priceMap, levels) ==
    IF levels = <<>> THEN priceMap
    ELSE fillMap(addToMap(priceMap, Head(levels)), Tail(levels))

\* mergeLevels(levels, order)
mergeLevels(levels, order) == SortLevels(fillMap(<<>>, levels), order)

\* getLatestSnapshot(venue, symbol): a sequence with the snapshot, empty for null
getLatestSnapshot(venue, symbol) ==
    LET key == <<venue, symbol>>
        stored == IF key \in DOMAIN snapshots THEN snapshots[key] ELSE <<>>
    IN  IF stored = <<>> THEN <<>> ELSE <<stored[Len(stored)]>>

\* venues.map(getLatestSnapshot).filter(s => s !== null)
RECURSIVE latestSnapshots(_, _)
latestSnapshots(venues, symbol) ==
    IF venues = <<>> THEN <<>>
    ELSE getLatestSnapshot(Head(venues), symbol) \o latestSnapshots(Tail(venues), symbol)

\* latestSnapshots.flatMap(s => s.data.bids) and the same for asks
RECURSIVE flatMapSide(_, _)
flatMapSide(snaps, side) ==
    IF snaps = <<>> THEN <<>>
    ELSE (IF side = "bids" THEN Head(snaps).data.bids ELSE Head(snaps).data.asks)
         \o flatMapSide(Tail(snaps), side)

RECURSIVE maxTimestamp(_)
maxTimestamp(snaps) ==
    IF Len(snaps) = 1 THEN snaps[1].timestamp
    ELSE LET m == maxTimestamp(Tail(snaps))
         IN  IF snaps[1].timestamp > m THEN snaps[1].timestamp ELSE m

\* .slice(0, n)
sliceFirst(items, n) == SubSeq(items, 1, IF Len(items) < n THEN Len(items) ELSE n)

Null == [isNull |-> TRUE]

\* getMergedOrderbook(symbol, venues)
getMergedOrderbook(symbol, venues) ==
    LET latest == latestSnapshots(venues, symbol)
    IN  IF Len(latest) = 0 THEN Null
        ELSE [isNull |-> FALSE, symbol |-> symbol, venue |-> "Merged",
              timestamp |-> maxTimestamp(latest),
              bids |-> sliceFirst(mergeLevels(flatMapSide(latest, "bids"), "desc"), mergedDepth),
              asks |-> sliceFirst(mergeLevels(flatMapSide(latest, "asks"), "asc"), mergedDepth)]

\* the books the venues send before a merge: overlapping prices, an empty
\* side, and a side deeper than the merged book
OverlapBook == [bids |-> <<[price |-> 22, quantity |-> 2], [price |-> 21, quantity |-> 1]>>,
                asks |-> <<[price |-> 23, quantity |-> 3], [price |-> 25, quantity |-> 1]>>]
WideBook == [bids |-> [i \in 1..(mergedDepth + 1) |-> [price |-> i + 1, quantity |-> 1]],
             asks |-> [i \in 1..(mergedDepth + 1) |-> [price |-> i + 22, quantity |-> 2]]]
MergeBooks == {OverlapBook, WideBook, NoBidsBook}

VenueNames == {"Binance", "Bybit", "OKX"}
Symbols == {"BTCUSDT", "BTC-USDT"}

\* a snapshot arrives before the query
MergeIngest(key, book) ==
    /\ call = NoCall
    /\ arrivals[key] < MaxMergeArrivals
    /\ addSnapshot(key, book)
    /\ UNCHANGED <<managerVars, qualityVars, runtimeVars, observerVars, failures, ticks,
                   detectorVars, callVars>>

\* the hook calls getMergedOrderbook(symbol, venues)
MergeCall(symbol, venues) ==
    /\ call = NoCall
    /\ call' = [fn |-> "getMergedOrderbook", symbol |-> symbol, venues |-> venues]
    /\ result' = Returned(getMergedOrderbook(symbol, venues))
    /\ UNCHANGED pipelineVars

NextMerge ==
    \/ \E key \in Keys : \E book \in MergeBooks : MergeIngest(key, book)
    \/ \E symbol \in Symbols : \E venues \in SeqsUpTo(VenueNames, MaxListed) :
           MergeCall(symbol, venues)

InitMerge == Fresh /\ NoQuery

SpecMerge == InitMerge /\ [][NextMerge]_vars

(* -------- calculateMarketImpact -------- *)
\* a JavaScript number that is a quotient: num / den, NaN when both are 0
Quotient(num, den) == [num |-> num, den |-> den]
Abs(x) == IF x < 0 THEN 0 - x ELSE x
Min2(a, b) == IF a < b THEN a ELSE b

\* a mutation: the cost is divided by the size asked for
requestedSize(tradeSize, remainingSize) == tradeSize

\* tradeSize - remainingSize, the divisor of averagePrice
filledSize(tradeSize, remainingSize) == tradeSize - remainingSize

\* for (const level of levels) { if (remainingSize <= 0) break; ... }
RECURSIVE walkLevels(_, _)
walkLevels(levels, acc) ==
    IF levels = <<>> \/ acc.remainingSize <= 0 THEN acc
    ELSE LET level == Head(levels)
             sizeAtLevel == Min2(acc.remainingSize, level.quantity)
         IN  walkLevels(Tail(levels),
                        [remainingSize |-> acc.remainingSize - sizeAtLevel,
                         totalCost |-> acc.totalCost + sizeAtLevel * level.price,
                         worstPrice |-> level.price,
                         levelsUsed |-> acc.levelsUsed + 1])

\* calculateMarketImpact(data, tradeSize, side)
calculateMarketImpact(data, tradeSize, side) ==
    LET levels == IF side = "buy" THEN SortLevels(data.asks, "asc")
                                  ELSE SortLevels(data.bids, "desc")
    IN  IF Len(levels) = 0
        THEN [averagePrice |-> Quotient(0, 1), priceImpact |-> Quotient(0, 1),
              slippage |-> Quotient(0, 1), worstPrice |-> 0,
              executionTime |-> Quotient(0, 10)]
        ELSE LET bestPrice == levels[1].price
                 end == walkLevels(levels, [remainingSize |-> tradeSize, totalCost |-> 0,
                                            worstPrice |-> bestPrice, levelsUsed |-> 0])
                 den == filledSize(tradeSize, end.remainingSize)
             IN  [averagePrice |-> Quotient(end.totalCost, den),
                  \* Math.abs((averagePrice - bestPrice) / bestPrice) * 100
                  priceImpact |-> Quotient(Abs(end.totalCost - bestPrice * den) * 100,
                                           Abs(den) * bestPrice),
                  slippage |-> Quotient(Abs(end.worstPrice - bestPrice) * 100, bestPrice),
                  worstPrice |-> end.worstPrice,
                  executionTime |-> Quotient(end.levelsUsed, 10)]

\* the levels of a book side as a feed delivers them
ImpactLevels == {[price |-> p, quantity |-> q] : p \in 1..3, q \in 1..2}
ImpactSides == SeqsUpTo(ImpactLevels, MaxImpactLevels)

RECURSIVE Depth(_)
Depth(levels) == IF levels = <<>> THEN 0 ELSE Head(levels).quantity + Depth(Tail(levels))

InitImpact ==
    /\ Fresh
    /\ \E levels \in ImpactSides : \E side \in {"buy", "sell"} :
          \E tradeSize \in 0..(Depth(levels) + 1) :
              call = [fn |-> "calculateMarketImpact", levels |-> levels, side |-> side,
                      tradeSize |-> tradeSize]
    /\ result = NoResult

\* calculateMarketImpact runs on a book that carries the levels on both sides
ImpactCall ==
    /\ call.fn = "calculateMarketImpact"
    /\ result = NoResult
    /\ result' = Returned(calculateMarketImpact([bids |-> call.levels, asks |-> call.levels],
                                                call.tradeSize, call.side))
    /\ UNCHANGED <<pipelineVars, call>>

SpecImpact == InitImpact /\ [][ImpactCall]_vars

(* -------- PressureZoneDetector.enhancedClusterLevels -------- *)
\* clusterDistance = 0.005, in thousandths
clusterDistance == 5
Max2(a, b) == IF a > b THEN a ELSE b

\* a mutation: the distance is taken from the first level of the cluster
firstInCluster(cluster) == cluster[1]

\* currentCluster[currentCluster.length - 1]
lastInCluster(cluster) == cluster[Len(cluster)]

\* weightedDistance <= this.clusterDistance, with
\*   priceDistance = |current.price - last.price| / last.price
\*   volumeWeight = min(quantities) / max(quantities)
\*   weightedDistance = priceDistance * (1 + (1 - volumeWeight))
\* multiplied out by last.price * max(quantities) * 1000 (all positive)
withinClusterDistance(currentLevel, last) ==
    LET lo == Min2(currentLevel.quantity, last.quantity)
        hi == Max2(currentLevel.quantity, last.quantity)
    IN  Abs(currentLevel.price - last.price) * (2 * hi - lo) * 1000
            <= clusterDistance * last.price * hi

\* the loop over sorted[1..]: clusters closed so far and the open cluster
RECURSIVE clusterLoop(_, _, _)
clusterLoop(rest, clusters, currentCluster) ==
    IF rest = <<>> THEN Append(clusters, currentCluster)
    ELSE LET currentLevel == Head(rest)
         IN  IF withinClusterDistance(currentLevel, lastInCluster(currentCluster))
             THEN clusterLoop(Tail(rest), clusters, Append(currentCluster, currentLevel))
             ELSE clusterLoop(Tail(rest), Append(clusters, currentCluster),
                              <<currentLevel>>)

enhancedClusterLevels(levels) ==
    IF Len(levels) = 0 THEN <<>>
    ELSE LET sorted == SortLevels(levels, "asc")
         IN  clusterLoop(Tail(sorted), <<>>, <<sorted[1]>>)

\* prices 0.5% apart (200, 201), closer (201, 202) and 1% apart (202, 204)
ClusterPrices == {200, 201, 202, 204}
ClusterLevels == {[price |-> p, quantity |-> q] : p \in ClusterPrices, q \in 1..2}

InitCluster ==
    /\ Fresh
    /\ \E levels \in SeqsUpTo(ClusterLevels, MaxClusterLevels) :
          call = [fn |-> "enhancedClusterLevels", levels |-> levels]
    /\ result = NoResult

ClusterCall ==
    /\ call.fn = "enhancedClusterLevels"
    /\ result = NoResult
    /\ result' = Returned(enhancedClusterLevels(call.levels))
    /\ UNCHANGED <<pipelineVars, call>>

SpecCluster == InitCluster /\ [][ClusterCall]_vars

(* -------- PressureZoneDetector.detectPressureZones -------- *)
\* volumeThreshold = 0.1, in hundredths
volumeThreshold == 10
maxHistoryLength == 1000
\* the window of predictZoneMovement, timestamp - zone.timestamp < 300000
similarWindow == 300000

\* levels.reduce((sum, level) => sum + level.quantity, 0)
RECURSIVE sumQuantity(_)
sumQuantity(levels) ==
    IF levels = <<>> THEN 0 ELSE Head(levels).quantity + sumQuantity(Tail(levels))

RECURSIVE sumPrice(_)
sumPrice(levels) == IF levels = <<>> THEN 0 ELSE Head(levels).price + sumPrice(Tail(levels))

RECURSIVE maxQuantityOf(_)
maxQuantityOf(levels) ==
    IF levels = <<>> THEN 0 ELSE Max2(Head(levels).quantity, maxQuantityOf(Tail(levels)))

\* Math.log(n) in thousandths, for the cluster sizes of the model
log(n) == CASE n = 1 -> 0 [] n = 2 -> 693 [] n = 3 -> 1099 [] n = 4 -> 1386
            [] n = 5 -> 1609 [] OTHER -> 1792

\* levelCount > 1 ? Math.log(levelCount) : 1, in thousandths
densityFactor(levelCount) == IF levelCount > 1 THEN log(levelCount) ELSE 1000

\* calculateAdvancedIntensity:
\*   (clusterVolume / totalVolume) * densityFactor
\*     * (maxQuantity / (clusterVolume / levelCount)) * 100
\* as a quotient, with clusterVolume and the factor 100 cancelled
calculateAdvancedIntensity(clusterVolume, totalVolume, levelCount, cluster) ==
    Quotient(densityFactor(levelCount) * maxQuantityOf(cluster) * levelCount,
             totalVolume * 10)

\* a.intensity - b.intensity as a sign: positive, zero or negative
compareQuotient(a, b) == a.num * b.den - b.num * a.den

\* zone.type === type && |zone.priceStart - avgPrice| / avgPrice < 0.02
\*   && timestamp - zone.timestamp < 300000, with avgPrice = priceTotal / count
isSimilarZone(zone, type, priceTotal, count, timestamp) ==
    /\ zone.type = type
    /\ Abs(zone.priceStart * count - priceTotal) * 100 < 2 * priceTotal
    /\ timestamp - zone.timestamp < similarWindow

\* this.historicalZones.filter(zone => ...)
filterSimilar(zones, type, priceTotal, count, timestamp) ==
    SelectSeq(zones, LAMBDA zone : isSimilarZone(zone, type, priceTotal, count, timestamp))

\* predictZoneMovement(cluster, type, timestamp); confidence in hundredths
predictZoneMovement(cluster, type, timestamp) ==
    LET similarZones == filterSimilar(historicalZones, type, sumPrice(cluster),
                                      Len(cluster), timestamp)
        n == Len(similarZones)
        recentZones == SubSeq(similarZones, Max2(1, n - 4), n)
        steps == Len(recentZones) - 1
        first == recentZones[1].intensity
        last == recentZones[Len(recentZones)].intensity
        \* the sum of the consecutive differences is last - first; it is
        \* compared with 5 * steps and -5 * steps
        rise == compareQuotient(last, first)
        limit == 5 * steps * first.den * last.den
        confidence == Min2(n * 10, 95)
    IN  IF n < 3 THEN [movement |-> "stable", confidence |-> 30]
        ELSE IF rise > limit THEN [movement |-> "strengthening", confidence |-> confidence]
        ELSE IF rise < 0 - limit THEN [movement |-> "weakening", confidence |-> confidence]
        ELSE [movement |-> "stable", confidence |-> confidence]

\* a mutation: every cluster is admitted
admitsAll(clusterVolume, minVolumeTotal) == TRUE

\* a mutation: the threshold is 5% of the side's quantity
admitsTwentieth(clusterVolume, totalVolume) == clusterVolume * 20 >= totalVolume

\* clusterVolume >= totalVolume * volumeThreshold
admits(clusterVolume, totalVolume) == clusterVolume * 100 >= totalVolume * volumeThreshold

\* the zone built from an admitted cluster
zoneOf(cluster, totalVolume, type, timestamp) ==
    LET clusterVolume == sumQuantity(cluster)
        prices == SortLevels(cluster, "asc")
    IN  [priceStart |-> prices[1].price,
         priceEnd |-> prices[Len(prices)].price,
         volume |-> clusterVolume,
         intensity |-> calculateAdvancedIntensity(clusterVolume, totalVolume,
                                                  Len(cluster), cluster),
         type |-> type,
         timestamp |-> timestamp,
         prediction |-> predictZoneMovement(cluster, type, timestamp)]

\* clusters.forEach(cluster => { if (clusterVolume >= minVolumeForZone) push })
RECURSIVE admittedZones(_, _, _, _)
admittedZones(clusters, totalVolume, type, timestamp) ==
    IF clusters = <<>> THEN <<>>
    ELSE LET rest == admittedZones(Tail(clusters), totalVolume, type, timestamp)
         IN  IF admits(sumQuantity(Head(clusters)), totalVolume)
             THEN <<zoneOf(Head(clusters), totalVolume, type, timestamp)>> \o rest
             ELSE rest

\* Array.prototype.sort with (a, b) => b.intensity - a.intensity: stable
RECURSIVE insertByIntensity(_, _)
insertByIntensity(sorted, zone) ==
    IF sorted = <<>> THEN <<zone>>
    ELSE IF compareQuotient(zone.intensity, Head(sorted).intensity) > 0
         THEN <<zone>> \o sorted
         ELSE <<Head(sorted)>> \o insertByIntensity(Tail(sorted), zone)

RECURSIVE sortByIntensity(_)
sortByIntensity(zones) ==
    IF zones = <<>> THEN <<>>
    ELSE insertByIntensity(sortByIntensity(SubSeq(zones, 1, Len(zones) - 1)),
                           zones[Len(zones)])

detectZonesInLevels(levels, type, timestamp) ==
    IF Len(levels) = 0 THEN <<>>
    ELSE sortByIntensity(admittedZones(enhancedClusterLevels(levels), sumQuantity(levels),
                                       type, timestamp))

\* what detectPressureZones(data) returns
allZonesOf(data) ==
    detectZonesInLevels(data.bids, "bid", data.timestamp)
        \o detectZonesInLevels(data.asks, "ask", data.timestamp)

\* a mutation: the oldest zones are kept, the newest dropped
keepOldestZones(zones) ==
    LET pushed == historicalZones \o zones
    IN  historicalZones' =
            IF Len(pushed) > maxHistoryLength THEN SubSeq(pushed, 1, maxHistoryLength)
            ELSE pushed

\* slice(-maxHistoryLength) of a history longer than maxHistoryLength
updateHistoricalZones(zones) ==
    LET pushed == historicalZones \o zones
    IN  historicalZones' =
            IF Len(pushed) > maxHistoryLength
            THEN SubSeq(pushed, Len(pushed) - maxHistoryLength + 1, Len(pushed))
            ELSE pushed

\* bid sides: a far level at 9000 and levels 0.01% apart at 10000..10002
ZonePrices == {9000, 10000, 10001, 10002}
ZoneLevels == {[price |-> p, quantity |-> q] : p \in ZonePrices, q \in {1, 5, 9}}
BidSides == SeqsUpTo(ZoneLevels, MaxZoneLevels)
AskSides == {<<>>, <<[price |-> 10100, quantity |-> 5]>>}
\* books with three similar bid zones, seen before the call under study
WarmBooks ==
    {[bids |-> <<[price |-> 10000, quantity |-> 9], [price |-> 10100, quantity |-> q],
                 [price |-> 10200, quantity |-> 1]>>,
      asks |-> <<>>, timestamp |-> 1] : q \in {1, 9}}
DetectBooks == {[bids |-> b, asks |-> a, timestamp |-> 2] : b \in BidSides, a \in AskSides}

\* the detector is fresh, or has only seen warm-up books so far
CanDetect ==
    \/ call = NoCall
    \/ (call.fn = "detectPressureZones" /\ call.count < MaxDetectCalls
            /\ call.data.timestamp = 1)

\* the hook calls detectPressureZones(data)
DetectCall(data) ==
    /\ CanDetect
    /\ call' = [fn |-> "detectPressureZones", data |-> data,
                count |-> IF call = NoCall THEN 1 ELSE call.count + 1]
    /\ result' = Returned(allZonesOf(data))
    /\ updateHistoricalZones(allZonesOf(data))
    /\ UNCHANGED <<managerVars, qualityVars, runtimeVars, observerVars, failures, ticks,
                   processorVars>>

NextDetector == CanDetect /\ \E data \in WarmBooks \cup DetectBooks : DetectCall(data)

InitDetectorOnly == Fresh /\ NoQuery

SpecDetector == InitDetectorOnly /\ [][NextDetector]_vars

(* -------- calculateAdvancedSpreadAnalysis, generateMLPrediction -------- *)
\* the prices of SpecAnalysis are counted in thousandths of the quote currency
PriceScale == 1000
\* trend > 0.01 and trend < -0.01
trendThreshold == 10
recentCount == 10
historicalSpreadsKept == 100
\* historicalData.length < 10
minimumPoints == 10
defaultTimeHorizon == 300000

\* values.slice(-n)
lastN(values, n) == SubSeq(values, Max2(1, Len(values) - n + 1), Len(values))

RECURSIVE sumOf(_)
sumOf(values) == IF values = <<>> THEN 0 ELSE Head(values) + sumOf(Tail(values))

\* values.reduce((sum, val, index) => sum + val * index, 0), index from 0
sumXYOf(values) == sumOf([i \in 1..Len(values) |-> values[i] * (i - 1)])

RECURSIVE minOf(_)
minOf(values) ==
    IF Len(values) = 1 THEN values[1] ELSE Min2(values[1], minOf(Tail(values)))

RECURSIVE maxOf(_)
maxOf(values) ==
    IF Len(values) = 1 THEN values[1] ELSE Max2(values[1], maxOf(Tail(values)))

\* calculateTrend(values): the least-squares slope, as a quotient
calculateTrend(values) ==
    IF Len(values) < 2 THEN Quotient(0, 1)
    ELSE LET n == Len(values)
             sumX == (n * (n - 1)) \div 2
             sumY == sumOf(values)
             sumXY == sumXYOf(values)
             sumXX == (n * (n - 1) * (2 * n - 1)) \div 6
         IN  Quotient(n * sumXY - sumX * sumY, n * sumXX - sumX * sumX)

\* trend > 0.01 ? 'widening' : trend < -0.01 ? 'narrowing' : 'stable'
\* (the slope is in thousandths per sample, its divisor is positive)
trendDirection(trend) ==
    IF trend.num > trendThreshold * trend.den THEN "widening"
    ELSE IF trend.num < 0 - trendThreshold * trend.den THEN "narrowing"
    ELSE "stable"

\* current < average * 0.7 ? 'tight' : current > average * 1.3 ? 'wide' : 'normal'
tightnessOf(current, total, n) ==
    IF current * n * 10 < total * 7 THEN "tight"
    ELSE IF current * n * 10 > total * 13 THEN "wide"
    ELSE "normal"

\* this.spreadHistory.get(key) || []
spreadHistoryOf(venue, symbol) ==
    IF <<venue, symbol>> \in Keys THEN spreadHistory[<<venue, symbol>>] ELSE <<>>

calculateAdvancedSpreadAnalysis(venue, symbol) ==
    LET history == spreadHistoryOf(venue, symbol)
    IN  IF Len(history) = 0
        THEN [current |-> 0, average |-> Quotient(0, 1), min |-> 0, max |-> 0,
              tightness |-> "normal", trend |-> "stable", historicalSpreads |-> <<>>,
              volatility |-> [sqrtOf |-> Quotient(0, 1)], venues |-> <<>>]
        ELSE LET spreads == [i \in 1..Len(history) |-> history[i].value]
                 n == Len(spreads)
                 current == spreads[n]
                 total == sumOf(spreads)
                 squares == sumOf([i \in 1..n |-> spreads[i] * spreads[i]])
                 recentSpreads == lastN(spreads, recentCount)
                 trend == IF Len(recentSpreads) >= 2 THEN calculateTrend(recentSpreads)
                          ELSE Quotient(0, 1)
             IN  [current |-> current,
                  average |-> Quotient(total, n),
                  min |-> minOf(spreads),
                  max |-> maxOf(spreads),
                  tightness |-> tightnessOf(current, total, n),
                  trend |-> trendDirection(trend),
                  historicalSpreads |-> lastN(history, historicalSpreadsKept),
                  \* the mean of (spread - average)^2 is (n * squares - total^2) / n^2
                  volatility |-> [sqrtOf |-> Quotient(n * squares - total * total, n * n)],
                  venues |-> (venue :> current)]

\* a mutation: the time range is ignored
getWholeHistory(venue, symbol, timeRange, now) ==
    IF <<venue, symbol>> \in Keys THEN historicalData[<<venue, symbol>>] ELSE <<>>

\* getHistoricalData(venue, symbol, timeRange), with Date.now() = now
getHistoricalData(venue, symbol, timeRange, now) ==
    LET data == IF <<venue, symbol>> \in Keys THEN historicalData[<<venue, symbol>>]
                ELSE <<>>
    IN  IF timeRange = 0 THEN data
        ELSE SelectSeq(data, LAMBDA point : point.timestamp >= now - timeRange)

\* extractMLFeatures(data), for books with both sides; m is bestBid + bestAsk,
\* twice the mid price
extractMLFeatures(data) ==
    LET m == [i \in 1..Len(data) |->
                 MaxPrice(data[i].orderbook.bids) + MinPrice(data[i].orderbook.asks)]
        volumes == [i \in 1..Len(data) |->
                       sumQuantity(data[i].orderbook.bids)
                           + sumQuantity(data[i].orderbook.asks)]
        spreads == [i \in 1..Len(data) |-> calculateSpread(data[i].orderbook)]
        S == sumOf(lastN(m, 5))
        recent == lastN(m, 10)
    IN  [priceMA |-> Quotient(S, 10),
         volumeMA |-> Quotient(sumOf(lastN(volumes, 5)), 5),
         spreadMA |-> Quotient(sumOf(lastN(spreads, 5)), 5),
         \* (m / 2 - S / 10)^2 = (5 m - S)^2 / 100, summed and divided by 10
         priceVolatility |->
             [sqrtOf |-> Quotient(sumOf([i \in 1..Len(recent) |->
                                            (5 * recent[i] - S) * (5 * recent[i] - S)]),
                                  1000)],
         momentum |-> Quotient(5 * m[Len(m)], S)]

\* the factors simulateNeuralNetworkPrediction lists
factorsOf(features) ==
    LET factors ==
            (IF features.momentum.num * 100 > 101 * features.momentum.den
             THEN <<"Strong upward momentum">> ELSE <<>>)
         \o (IF features.momentum.num * 100 < 99 * features.momentum.den
             THEN <<"Downward momentum">> ELSE <<>>)
         \o (IF features.volumeMA.num > 800 * features.volumeMA.den
             THEN <<"High volume activity">> ELSE <<>>)
         \o (IF features.spreadMA.num > 5 * PriceScale * features.spreadMA.den
             THEN <<"Wide spread conditions">> ELSE <<>>)
         \o (IF ((features.priceVolatility.sqrtOf.num - 1) \div 1000)
                    \div (300 * PriceScale) >= 300 * PriceScale
             THEN <<"High volatility detected">> ELSE <<>>)
    IN  IF Len(factors) > 0 THEN factors ELSE <<"Normal market conditions">>

\* !(historicalData.length < 10)
enoughPoints(count) == count >= minimumPoints

\* generateMLPrediction(venue, symbol, timeHorizon), with Date.now() = now;
\* the network's outputs are named by the features they are computed from
generateMLPrediction(venue, symbol, timeHorizon, now) ==
    LET data == getHistoricalData(venue, symbol, timeHorizon * 2, now)
    IN  IF ~enoughPoints(Len(data))
        THEN [timestamp |-> now, priceTarget |-> "0", confidence |-> "0",
              timeHorizon |-> timeHorizon, factors |-> <<"Insufficient data">>,
              neuralNetworkOutput |-> <<"0.5">>, predictionType |-> "price_movement"]
        ELSE LET features == extractMLFeatures(data)
             IN  [timestamp |-> now,
                  priceTarget |-> [targetFrom |-> features],
                  confidence |-> [confidenceFrom |-> features],
                  timeHorizon |-> timeHorizon,
                  factors |-> factorsOf(features),
                  neuralNetworkOutput |-> [outputFrom |-> features],
                  predictionType |-> "price_movement",
                  venue |-> venue]

\* a book with bid 100.000 and the given spread, in thousandths
SpreadBook(spread) == [bids |-> <<[price |-> 100000, quantity |-> 1]>>,
                       asks |-> <<[price |-> 100000 + spread, quantity |-> 1]>>]
FirstSpread == 300
SpreadSteps == {0, 1, -1, 20, -20}

\* the spread may follow the last one: freely early on, by the same step later
Follows(spread, history) ==
    LET n == Len(history)
    IN  /\ n = 0 => spread = FirstSpread
        /\ n > 0 => spread - history[n].value \in SpreadSteps
        /\ (n >= MaxFreeSamples /\ n >= 2)
           => spread - history[n].value = history[n].value - history[n - 1].value

AnalysisIngest ==
    /\ call = NoCall
    /\ arrivals[MainKey] < MaxSamples
    /\ \E step \in SpreadSteps \cup {FirstSpread} :
          LET last == IF spreadHistory[MainKey] = <<>> THEN 0
                      ELSE spreadHistory[MainKey][Len(spreadHistory[MainKey])].value
          IN  /\ Follows(last + step, spreadHistory[MainKey])
              /\ addSnapshot(MainKey, SpreadBook(last + step))
    /\ UNCHANGED <<managerVars, qualityVars, runtimeVars, observerVars, failures, ticks,
                   detectorVars, callVars>>

SpreadCall(venue, symbol) ==
    /\ call = NoCall
    /\ call' = [fn |-> "calculateAdvancedSpreadAnalysis", venue |-> venue, symbol |-> symbol]
    /\ result' = Returned(calculateAdvancedSpreadAnalysis(venue, symbol))
    /\ UNCHANGED pipelineVars

TimeHorizons == {0, 2, 5, defaultTimeHorizon}
\* how long after the last snapshot the prediction is asked for
Delays == {0, 3}

PredictCall(venue, symbol, timeHorizon, delay) ==
    LET now == arrivals[MainKey] + delay
    IN  /\ call = NoCall
        /\ call' = [fn |-> "generateMLPrediction", venue |-> venue, symbol |-> symbol,
                    timeHorizon |-> timeHorizon, now |-> now]
        /\ result' = Returned(generateMLPrediction(venue, symbol, timeHorizon, now))
        /\ UNCHANGED pipelineVars

NextAnalysis ==
    \/ AnalysisIngest
    \/ \E key \in Keys : SpreadCall(key[1], key[2])
    \/ \E key \in Keys : \E timeHorizon \in TimeHorizons : \E delay \in Delays :
          PredictCall(key[1], key[2], timeHorizon, delay)

InitAnalysis == Fresh /\ NoQuery

SpecAnalysis == InitAnalysis /\ [][NextAnalysis]_vars

(* -------- getSnapshots, calculateVolumeProfile -------- *)
\* getSnapshots(venue, symbol, timeRange), with Date.now() = now
getSnapshots(venue, symbol, timeRange, now) ==
    LET stored == IF <<venue, symbol>> \in Keys THEN snapshots[<<venue, symbol>>] ELSE <<>>
    IN  IF timeRange = 0 THEN stored
        ELSE SelectSeq(stored, LAMBDA snapshot : snapshot.timestamp >= now - timeRange)

\* Math.round(level.price / priceStep) * priceStep, for positive prices
roundedPrice(price, priceStep) == ((2 * price + priceStep) \div (2 * priceStep)) * priceStep

\* the entry of a price the Map does not hold yet
NewBucket(price) == [price |-> price, bidVolume |-> 0, askVolume |-> 0,
                     timeWeightedVolume |-> <<>>, transactions |-> 0, venues |-> <<>>]

\* existing.venues.add(venue): a Set in insertion order
addVenue(venues, venue) ==
    IF \E i \in 1..Len(venues) : venues[i] = venue THEN venues ELSE Append(venues, venue)

\* the body of the inner forEach on one entry; timeWeightedVolume is kept as
\* the terms quantity * exp(-age / 300000) that are added to it
addLevel(existing, level, isBid, age, venue) ==
    [existing EXCEPT
        !.bidVolume = IF isBid THEN @ + level.quantity ELSE @,
        !.askVolume = IF isBid THEN @ ELSE @ + level.quantity,
        !.timeWeightedVolume = Append(@, [quantity |-> level.quantity, age |-> age]),
        !.transactions = @ + 1,
        !.venues = addVenue(@, venue)]

\* volumeMap.set(roundedPrice, existing) on the Map as its entries in insertion order
RECURSIVE putLevel(_, _, _, _, _, _)
putLevel(volumeMap, price, level, isBid, age, venue) ==
    IF volumeMap = <<>> THEN <<addLevel(NewBucket(price), level, isBid, age, venue)>>
    ELSE IF Head(volumeMap).price = price
    THEN <<addLevel(Head(volumeMap), level, isBid, age, venue)>> \o Tail(volumeMap)
    ELSE <<Head(volumeMap)>> \o putLevel(Tail(volumeMap), price, level, isBid, age, venue)

\* [...snapshot.data.bids, ...snapshot.data.asks].forEach(...): the first
\* bidsLeft levels are the objects of the bids array
RECURSIVE putLevels(_, _, _, _, _, _)
putLevels(volumeMap, levels, bidsLeft, priceStep, age, venue) ==
    IF levels = <<>> THEN volumeMap
    ELSE putLevels(putLevel(volumeMap, roundedPrice(Head(levels).price, priceStep),
                            Head(levels), bidsLeft > 0, age, venue),
                   Tail(levels), bidsLeft - 1, priceStep, age, venue)

RECURSIVE putSnapshots(_, _, _, _)
putSnapshots(volumeMap, snaps, priceStep, now) ==
    IF snaps = <<>> THEN volumeMap
    ELSE LET snapshot == Head(snaps)
         IN  putSnapshots(putLevels(volumeMap, snapshot.data.bids \o snapshot.data.asks,
                                    Len(snapshot.data.bids), priceStep,
                                    now - snapshot.timestamp, snapshot.data.venue),
                          Tail(snaps), priceStep, now)

\* calculateVolumeProfile(snapshots, priceStep), with Date.now() = now
calculateVolumeProfile(snaps, priceStep, now) ==
    LET volumeMap == putSnapshots(<<>>, snaps, priceStep, now)
        totalVolume == sumOf([i \in 1..Len(volumeMap) |->
                                 volumeMap[i].bidVolume + volumeMap[i].askVolume])
        rows == [i \in 1..Len(volumeMap) |->
                    [price |-> volumeMap[i].price,
                     bidVolume |-> volumeMap[i].bidVolume,
                     askVolume |-> volumeMap[i].askVolume,
                     totalVolume |-> volumeMap[i].bidVolume + volumeMap[i].askVolume,
                     percentage |-> Quotient((volumeMap[i].bidVolume
                                                 + volumeMap[i].askVolume) * 100,
                                             totalVolume),
                     transactions |-> volumeMap[i].transactions,
                     timeWeightedVolume |-> volumeMap[i].timeWeightedVolume,
                     venue |-> volumeMap[i].venues]]
    IN  SortLevels(rows, "asc")

\* the book of the scenario, and one that moved
ScenarioBook ==
    [bids |-> <<[price |-> 100, quantity |-> 1], [price |-> 101, quantity |-> 1],
                [price |-> 102, quantity |-> 1]>>,
     asks |-> <<[price |-> 103, quantity |-> 1], [price |-> 104, quantity |-> 1],
                [price |-> 105, quantity |-> 1]>>]
MovedBook ==
    [bids |-> <<[price |-> 99, quantity |-> 2], [price |-> 101, quantity |-> 1]>>,
     asks |-> <<[price |-> 104, quantity |-> 2], [price |-> 108, quantity |-> 1]>>]

ProfileIngest(book) ==
    /\ call = NoCall
    /\ arrivals[MainKey] < MaxProfileSnapshots
    /\ addSnapshot(MainKey, book)
    /\ UNCHANGED <<managerVars, qualityVars, runtimeVars, observerVars, failures, ticks,
                   detectorVars, callVars>>

PriceSteps == {1, 2, 10}

\* calculateVolumeProfile(getSnapshots(venue, symbol, timeRange), priceStep)
ProfileCall(venue, symbol, timeRange, priceStep, delay) ==
    LET now == arrivals[MainKey] + delay
    IN  /\ call = NoCall
        /\ call' = [fn |-> "calculateVolumeProfile", venue |-> venue, symbol |-> symbol,
                    timeRange |-> timeRange, priceStep |-> priceStep, now |-> now]
        /\ result' = Returned(calculateVolumeProfile(
                                  getSnapshots(venue, symbol, timeRange, now), priceStep, now))
        /\ UNCHANGED pipelineVars

NextProfile ==
    \/ \E book \in {ScenarioBook, MovedBook} : ProfileIngest(book)
    \/ \E key \in Keys : \E timeRange \in 0..1 : \E priceStep \in PriceSteps :
          \E delay \in 0..1 : ProfileCall(key[1], key[2], timeRange, priceStep, delay)

InitProfile == Fresh /\ NoQuery

SpecProfile == InitProfile /\ [][NextProfile]_vars

(* -------- PressureZoneDetector.generateMarketDepthHeatmap -------- *)
timeSlots == 20
priceSlots == 50
heatmapTimeWindow == 300000
\* Math.min(volume / 10, 1)
intensityNorm == 10

\* orderbooks.flatMap(ob => [...bid prices, ...ask prices]), as a set
allPricesOf(orderbooks) ==
    UNION {{orderbooks[i].bids[j].price : j \in 1..Len(orderbooks[i].bids)}
               \cup {orderbooks[i].asks[j].price : j \in 1..Len(orderbooks[i].asks)} :
              i \in 1..Len(orderbooks)}
SetMin(S) == CHOOSE x \in S : \A y \in S : x <= y
SetMax(S) == CHOOSE x \in S : \A y \in S : x >= y

\* ob.timestamp >= timeSlotStart && ob.timestamp < timeSlotEnd, with
\* timeSlotStart = now - timeWindow + t * (timeWindow / timeSlots);
\* both sides multiplied by timeSlots
inTimeSlot(timestamp, t, timeWindow, now) ==
    /\ timeSlots * timestamp >= timeSlots * (now - timeWindow) + t * timeWindow
    /\ timeSlots * timestamp < timeSlots * (now - timeWindow) + (t + 1) * timeWindow

\* price >= priceRange[0], with priceRange[0] = minPrice + p * priceStep and
\* priceStep = (maxPrice - minPrice) / priceSlots; multiplied by priceSlots
atLeastLow(price, p, minPrice, maxPrice) ==
    priceSlots * price >= priceSlots * minPrice + p * (maxPrice - minPrice)

\* price < priceRange[1]
belowHigh(price, p, minPrice, maxPrice) ==
    priceSlots * price < priceSlots * minPrice + (p + 1) * (maxPrice - minPrice)

\* ask.price >= priceRange: a number compared with the array itself. The
\* array of two numbers converts to the string "low,high", that string to
\* NaN, and a comparison with NaN is false.
atLeastArray(price, p, minPrice, maxPrice) == FALSE

\* the quantity a side's levels add to the bucket
RECURSIVE bucketVolume(_, _, _, _, _)
bucketVolume(levels, isBid, p, minPrice, maxPrice) ==
    IF levels = <<>> THEN 0
    ELSE LET level == Head(levels)
             inside == /\ IF isBid THEN atLeastLow(level.price, p, minPrice, maxPrice)
                          ELSE atLeastArray(level.price, p, minPrice, maxPrice)
                       /\ belowHigh(level.price, p, minPrice, maxPrice)
         IN  (IF inside THEN level.quantity ELSE 0)
                 + bucketVolume(Tail(levels), isBid, p, minPrice, maxPrice)

\* relevantOrderbooks.forEach(ob => ...) for one side
RECURSIVE slotVolume(_, _, _, _, _)
slotVolume(relevant, isBid, p, minPrice, maxPrice) ==
    IF relevant = <<>> THEN 0
    ELSE bucketVolume(IF isBid THEN Head(relevant).bids ELSE Head(relevant).asks,
                      isBid, p, minPrice, maxPrice)
             + slotVolume(Tail(relevant), isBid, p, minPrice, maxPrice)

\* the cell pushed for a volume above 0; the temperature is
\* min(log(volume + 1) * 10 / 100, 1), named by the argument of the logarithm
heatCell(t, p, volume, type, minPrice, maxPrice) ==
    IF volume > 0
    THEN <<[priceLevel |-> Quotient(priceSlots * minPrice + p * (maxPrice - minPrice),
                                    priceSlots),
            timeSlot |-> t,
            volume |-> volume,
            intensity |-> Quotient(Min2(volume, intensityNorm), intensityNorm),
            type |-> type,
            temperature |-> [logOf |-> volume + 1]]>>
    ELSE <<>>

\* for (let p = 0; p < priceSlots; p++) { ... }
RECURSIVE priceLoop(_, _, _, _, _)
priceLoop(p, t, relevant, minPrice, maxPrice) ==
    IF p >= priceSlots THEN <<>>
    ELSE heatCell(t, p, slotVolume(relevant, TRUE, p, minPrice, maxPrice), "bid",
                  minPrice, maxPrice)
         \o heatCell(t, p, slotVolume(relevant, FALSE, p, minPrice, maxPrice), "ask",
                     minPrice, maxPrice)
         \o priceLoop(p + 1, t, relevant, minPrice, maxPrice)

\* for (let t = 0; t < timeSlots; t++) { ... }
RECURSIVE timeLoop(_, _, _, _, _, _)
timeLoop(t, orderbooks, timeWindow, now, minPrice, maxPrice) ==
    IF t >= timeSlots THEN <<>>
    ELSE LET relevant == SelectSeq(orderbooks, LAMBDA ob :
                                       inTimeSlot(ob.timestamp, t, timeWindow, now))
         IN  (IF relevant = <<>> THEN <<>>
              ELSE priceLoop(0, t, relevant, minPrice, maxPrice))
             \o timeLoop(t + 1, orderbooks, timeWindow, now, minPrice, maxPrice)

\* generateMarketDepthHeatmap(orderbooks, timeWindow), with Date.now() = now.
\* Without any price the range is Infinity..-Infinity and no level is read.
generateMarketDepthHeatmap(orderbooks, timeWindow, now) ==
    IF Len(orderbooks) = 0 \/ allPricesOf(orderbooks) = {} THEN <<>>
    ELSE timeLoop(0, orderbooks, timeWindow, now, SetMin(allPricesOf(orderbooks)),
                  SetMax(allPricesOf(orderbooks)))

\* the moment of the call, and the snapshots handed over: prices 100..150
\* (buckets 1 wide), quantities below and above the normalising 10, taken at
\* the start of the window, just before the call, or at the call
HeatNow == 1000000
HeatBids == {<<>>, <<[price |-> 100, quantity |-> 1]>>,
             <<[price |-> 100, quantity |-> 12], [price |-> 125, quantity |-> 1]>>}
HeatAsks == {<<>>, <<[price |-> 126, quantity |-> 1]>>,
             <<[price |-> 125, quantity |-> 12], [price |-> 150, quantity |-> 1]>>}
HeatTimes == {HeatNow - heatmapTimeWindow, HeatNow - 1, HeatNow}
HeatSnapshots == {[bids |-> b, asks |-> a, timestamp |-> ts] :
                     b \in HeatBids, a \in HeatAsks, ts \in HeatTimes}

InitHeatmap ==
    /\ Fresh
    /\ \E orderbooks \in SeqsUpTo(HeatSnapshots, MaxHeatBooks) :
          call = [fn |-> "generateMarketDepthHeatmap", orderbooks |-> orderbooks,
                  timeWindow |-> heatmapTimeWindow, now |-> HeatNow]
    /\ result = NoResult

HeatmapCall ==
    /\ call.fn = "generateMarketDepthHeatmap"
    /\ result = NoResult
    /\ result' = Returned(generateMarketDepthHeatmap(call.orderbooks, call.timeWindow,
                                                     call.now))
    /\ UNCHANGED <<pipelineVars, call>>

SpecHeatmap == InitHeatmap /\ [][HeatmapCall]_vars

(* -------- PressureZoneDetector.detectImbalances -------- *)
\* slice(0, 10)
imbalanceDepth == 10

\* detectImbalances(data); ratio and intensity as quotients
detectImbalances(data) ==
    LET bidVolume == sumQuantity(sliceFirst(data.bids, imbalanceDepth))
        askVolume == sumQuantity(sliceFirst(data.asks, imbalanceDepth))
        total == bidVolume + askVolume
    IN  IF bidVolume = 0 /\ askVolume = 0
        THEN [ratio |-> Quotient(1, 1), direction |-> "balanced",
              intensity |-> Quotient(0, 1), prediction |-> "neutral"]
        ELSE \* ratio > 0.65, ratio < 0.35 with ratio = bidVolume / total
             LET direction == IF bidVolume * 100 > 65 * total THEN "bid"
                              ELSE IF bidVolume * 100 < 35 * total THEN "ask"
                              ELSE "balanced"
             IN  [ratio |-> Quotient(bidVolume, total),
                  direction |-> direction,
                  \* Math.abs(ratio - 0.5) * 2
                  intensity |-> Quotient(Abs(2 * bidVolume - total), total),
                  prediction |-> CASE direction = "bid" -> "bullish"
                                   [] direction = "ask" -> "bearish"
                                   [] OTHER -> "neutral"]

\* sides of up to MaxImbalanceLevels levels, and one deeper than the slice
ImbalanceQuantities == {1, 2, 7}
ImbalanceSides ==
    {[i \in 1..Len(q) |-> [price |-> 100 + i, quantity |-> q[i]]] :
        q \in SeqsUpTo(ImbalanceQuantities, MaxImbalanceLevels)}
    \cup {[i \in 1..(imbalanceDepth + 1) |->
              [price |-> 100 + i, quantity |-> IF i > imbalanceDepth THEN 7 ELSE 1]]}

InitImbalance ==
    /\ Fresh
    /\ \E bids \in ImbalanceSides : \E asks \in ImbalanceSides :
          call = [fn |-> "detectImbalances", data |-> [bids |-> bids, asks |-> asks]]
    /\ result = NoResult

ImbalanceCall ==
    /\ call.fn = "detectImbalances"
    /\ result = NoResult
    /\ result' = Returned(detectImbalances(call.data))
    /\ UNCHANGED <<pipelineVars, call>>

SpecImbalance == InitImbalance /\ [][ImbalanceCall]_vars

(* -------- the zone history over many calls -------- *)
\* five bids and five asks 10 apart, each a cluster of 20% of its side: 10 zones
LadderBook == [bids |-> [i \in 1..5 |-> [price |-> 90 + 10 * i, quantity |-> 1]],
               asks |-> [i \in 1..5 |-> [price |-> 140 + 10 * i, quantity |-> 1]]]
\* books of 3 zones, of 1 zone and of none; the venue does not reach the detector
HistoryBooks ==
    {LadderBook,
     [bids |-> <<[price |-> 100, quantity |-> 1], [price |-> 120, quantity |-> 2]>>,
      asks |-> <<[price |-> 150, quantity |-> 1]>>],
     [bids |-> <<[price |-> 100, quantity |-> 1]>>, asks |-> <<>>],
     [bids |-> <<>>, asks |-> <<>>]}

callsMade == IF call = NoCall THEN 0 ELSE call.count

\* the hook calls detectPressureZones on the snapshot a venue delivered
HistoryCall(book) ==
    LET data == [bids |-> book.bids, asks |-> book.asks, timestamp |-> callsMade + 1]
    IN  /\ callsMade < MaxHistoryCalls
        /\ book # LadderBook => callsMade < MaxEarlyDetect
        /\ call' = [fn |-> "detectPressureZones", data |-> data, count |-> callsMade + 1]
        /\ result' = Returned(allZonesOf(data))
        /\ updateHistoricalZones(allZonesOf(data))
        /\ UNCHANGED <<managerVars, qualityVars, runtimeVars, observerVars, failures,
                       ticks, processorVars>>

NextHistory == \E book \in HistoryBooks : HistoryCall(book)

InitHistory == Fresh /\ NoQuery

SpecHistory == InitHistory /\ [][NextHistory]_vars

(* -------- predictZoneMovement against a history -------- *)
\* a two-level bid cluster 1000..1005 alone and next to a heavy far level, and
\* single bids 1% and 2.2% above 1000
PairBook == [bids |-> <<[price |-> 1000, quantity |-> 1], [price |-> 1005, quantity |-> 1]>>,
             asks |-> <<>>]
DilutedBook == [bids |-> <<[price |-> 900, quantity |-> 8], [price |-> 1000, quantity |-> 1],
                           [price |-> 1005, quantity |-> 1]>>,
                asks |-> <<>>]
NearBook == [bids |-> <<[price |-> 1010, quantity |-> 1]>>, asks |-> <<>>]
AboveBook == [bids |-> <<[price |-> 1022, quantity |-> 1]>>, asks |-> <<>>]
PredictionBooks == {PairBook, DilutedBook, NearBook, AboveBook}
\* the time between two snapshots: a moment, or the whole window
SnapshotGaps == {1, similarWindow}

lastTimestamp == IF call = NoCall THEN 0 ELSE call.data.timestamp

PredictionCall(book, gap) ==
    LET data == [bids |-> book.bids, asks |-> book.asks, timestamp |-> lastTimestamp + gap]
    IN  /\ callsMade < MaxPredictionCalls
        /\ call' = [fn |-> "detectPressureZones", data |-> data, count |-> callsMade + 1]
        /\ result' = Returned(allZonesOf(data))
        /\ updateHistoricalZones(allZonesOf(data))
        /\ UNCHANGED <<managerVars, qualityVars, runtimeVars, observerVars, failures,
                       ticks, processorVars>>

NextPrediction ==
    \E book \in PredictionBooks : \E gap \in SnapshotGaps : PredictionCall(book, gap)

InitPrediction == Fresh /\ NoQuery

SpecPrediction == InitPrediction /\ [][NextPrediction]_vars

(* ------------------------------------------------------------------ *)
(* detectPressureZones on wide sides                                    *)
(* ------------------------------------------------------------------ *)
\* bid sides of 10 to MaxWideLevels levels of quantity 1 or 2: level i at
\* price 1000 * i, far from its neighbours, the last one either there or
\* 0.1% above the level before it
WideSide(n, quantities, near) ==
    [i \in 1..n |->
        [price |-> IF near /\ i = n THEN 1000 * (n - 1) + 1 ELSE 1000 * i,
         quantity |-> quantities[i]]]

WideSides ==
    UNION {{WideSide(n, quantities, near) : quantities \in [1..n -> {1, 2}], near \in BOOLEAN}
               : n \in 10..MaxWideLevels}

WideBooks == {[bids |-> b, asks |-> a, timestamp |-> 2] : b \in WideSides, a \in AskSides}

NextWide == call = NoCall /\ \E data \in WideBooks : DetectCall(data)

InitWide == Fresh /\ NoQuery

SpecWide == InitWide /\ [][NextWide]_vars

(* ------------------------------------------------------------------ *)
(* Properties                                                           *)
(* ------------------------------------------------------------------ *)
\* the venue has a live polling timer
Polling(v) == \E id \in IntervalIds : <<v, id>> \in intervals

\* this step is the end of a poll cycle of v that failed
PollFailed(v) == lastEvent'.op = "poll" /\ lastEvent'.venue = v /\ lastEvent'.failed

\* this step is the end of a poll cycle that dispatched a snapshot
PollDelivered(v) == lastEvent'.op = "poll" /\ lastEvent'.venue = v /\ lastEvent'.notified

\* C1: for a venue that is connected and polling, the third poll failure in a
\* row moves it from connected to failed, leaves it no live polling timer and
\* schedules a reconnect timer; the first and the second failure in a row leave
\* it connected with its polling timers as they were.
C1_ThirdFailureStopsPolling ==
    [][\A v \in Venues :
          (connectionStates[v] = "connected" /\ Polling(v) /\ PollFailed(v))
          => IF consecutiveErrors[v] = FailureThreshold - 1
             THEN /\ connectionStates'[v] = "failed"
                  /\ ~Polling(v)'
                  /\ reconnectTimeouts'[v] # NoTimer
             ELSE consecutiveErrors[v] < FailureThreshold - 1
                  => (connectionStates'[v] = "connected" /\ intervals' = intervals)]_vars

\* the breaker of v has tripped: the maximum number of reconnect attempts was
\* used since the latest successful connect, and the last of them has failed
Tripped(v) ==
    /\ attemptsUsed[v] = maxReconnectAttempts
    /\ connectionStates[v] = "failed"
    /\ connectsInFlight[v] = 0
    /\ ~isDestroyed

\* C2: once a venue has used maxReconnectAttempts reconnect attempts without a
\* successful connect and the last one has failed, it has no reconnect timer,
\* it stays failed, and no connect attempt and no poll of it starts again.
C2_BreakerIsFinal ==
    [][\A v \in Venues :
          Tripped(v)
          => /\ reconnectTimeouts[v] = NoTimer
             /\ reconnectTimeouts'[v] = NoTimer
             /\ connectionStates'[v] = "failed"
             /\ connectsInFlight'[v] = 0
             /\ PollsOf(v)' <= PollsOf(v)]_vars

\* C3: no venue ever has more than one poll in flight, nor more than one
\* connect attempt in flight.
C3_OneRequestInFlight ==
    \A v \in Venues : PollsOf(v) <= 1 /\ connectsInFlight[v] <= 1

\* C4: when a poll dispatches a snapshot and some subscriber throws, every
\* subscribed callback is still invoked with it, the poll is not counted as
\* failed, the venue's consecutive-error counter is the 0 of a successful poll
\* and its connection state is unchanged.
C4_FanOutIsolation ==
    [][\A v \in Venues :
          (PollDelivered(v) /\ lastEvent'.threw # {})
          => /\ Range(lastEvent'.invoked) = Range(subscribers)
             /\ ~lastEvent'.failed
             /\ consecutiveErrors'[v] = 0
             /\ connectionStates'[v] = connectionStates[v]
             /\ ~unhandled']_vars

\* a dispatch reached two subscribers although the first of them threw
C4_Witness ==
    /\ lastEvent.op = "poll"
    /\ lastEvent.notified
    /\ Len(lastEvent.invoked) = 2
    /\ lastEvent.invoked[1] \in lastEvent.threw

\* C5: a successful poll invokes exactly the callbacks subscribed at that
\* moment, each once, with the poll's snapshot; a step that changes the
\* subscriber set (subscribe, unsubscribe, disconnect) invokes no callback; a
\* callback that is not subscribed is never invoked.
C5_SubscriptionContract ==
    [][/\ (lastEvent'.op = "poll" /\ ~lastEvent'.failed)
          => /\ lastEvent'.notified
             /\ lastEvent'.invoked = subscribers
             /\ Cardinality(Range(lastEvent'.invoked)) = Len(lastEvent'.invoked)
             /\ lastEvent'.snapshot # NoSnapshot
       /\ subscribers' # subscribers => lastEvent'.invoked = <<>>
       /\ Range(lastEvent'.invoked) \subseteq Range(subscribers)]_vars

\* a poll delivered to the only callback still subscribed, after the other
\* had received an earlier one
C5_Witness ==
    /\ lastEvent.op = "poll"
    /\ ~lastEvent.failed
    /\ lastEvent.invoked = <<"cb2">>
    /\ subscribers = <<"cb2">>

\* C6: once disconnect() has run, no timer of the manager changes the
\* manager's state: the connection states, the counters, the timers and the
\* data-quality scores stay as they are unless a client calls in or a request
\* already in flight returns.
C6_QuietAfterDisconnect ==
    [][(isDestroyed /\ connectsInFlight' = connectsInFlight /\ pollsInFlight' = pollsInFlight)
       => /\ UNCHANGED <<connectionStates, reconnectAttempts, consecutiveErrors,
                         lastUpdateTimes, pollingIntervals, reconnectTimeouts, intervals>>
          /\ UNCHANGED qualityVars]_vars

\* what one venue owns
VenueState(w) ==
    <<connectionStates[w], reconnectAttempts[w], consecutiveErrors[w], pollingIntervals[w],
      reconnectTimeouts[w], {id \in IntervalIds : <<w, id>> \in intervals},
      connectsInFlight[w], pollsInFlight[w], lastUpdateTimes[w]>>

C8_FailureIsCaught ==
    [][\A v \in Venues :
          PollFailed(v)
          => /\ ~lastEvent'.notified
             /\ lastEvent'.invoked = <<>>
             /\ ~unhandled'
             /\ consecutiveErrors'[v] = consecutiveErrors[v] + 1]_vars

\* with a subscriber present, a poll failed as the third in a row
C8_Witness ==
    /\ lastEvent.op = "poll"
    /\ lastEvent.failed
    /\ subscribers # <<>>
    /\ consecutiveErrors[lastEvent.venue] = FailureThreshold
    /\ connectionStates[lastEvent.venue] = "failed"

\* C9: every snapshot a subscriber receives has at least one bid and
\* at least one ask.
C9_NoEmptySide ==
    (lastEvent.op = "poll" /\ lastEvent.notified /\ lastEvent.invoked # <<>>)
    => (Len(lastEvent.snapshot.bids) > 0 /\ Len(lastEvent.snapshot.asks) > 0)

\* an append to a full history drops its oldest entry and keeps the order
Evicts(old, new, cap) ==
    (Len(old) = cap /\ new # old)
    => /\ Len(new) = cap
       /\ SubSeq(new, 1, cap - 1) = Tail(old)
       /\ new[cap].timestamp > old[cap].timestamp

\* C10: for every key the snapshot history, the historical-point history and
\* the spread history hold at most 1000 entries, and an append to a history
\* that holds 1000 removes exactly the oldest entry and keeps the others in
\* arrival order.
C10_BoundedHistories ==
    [][\A k \in Keys :
          /\ Len(snapshots[k]) <= 1000 /\ Len(snapshots'[k]) <= 1000
          /\ Len(historicalData[k]) <= 1000 /\ Len(historicalData'[k]) <= 1000
          /\ Len(spreadHistory[k]) <= 1000 /\ Len(spreadHistory'[k]) <= 1000
          /\ Evicts(snapshots[k], snapshots'[k], 1000)
          /\ Evicts(historicalData[k], historicalData'[k], 1000)
          /\ Evicts(spreadHistory[k], spreadHistory'[k], 1000)]_vars

\* all three histories of a key are full and have lost their oldest entries
C10_Witness ==
    /\ Len(snapshots[MainKey]) = 1000 /\ snapshots[MainKey][1].timestamp > 1
    /\ Len(historicalData[MainKey]) = 1000 /\ historicalData[MainKey][1].timestamp > 1
    /\ Len(spreadHistory[MainKey]) = 1000 /\ spreadHistory[MainKey][1].timestamp > 2
    /\ \A i \in 1..999 : snapshots[MainKey][i].timestamp < snapshots[MainKey][i + 1].timestamp

\* prices strictly falling (dir = "desc") or strictly rising (dir = "asc")
StrictlySorted(levels, dir) ==
    \A i \in 1..(Len(levels) - 1) :
        IF dir = "desc" THEN levels[i].price > levels[i + 1].price
                        ELSE levels[i].price < levels[i + 1].price

\* C11: every snapshot a venue parser returns has its bids in strictly
\* descending and its asks in strictly ascending price order, and only levels
\* with price > 0 and quantity > 0.
C11_ParsedSidesStrict ==
    (call.fn = "parseOrderbook" /\ result.returned /\ ~result.value.thrown)
    => LET book == result.value.value
       IN  /\ StrictlySorted(book.bids, "desc")
           /\ StrictlySorted(book.asks, "asc")
           /\ \A i \in 1..Len(book.bids) : book.bids[i].price > 0 /\ book.bids[i].quantity > 0
           /\ \A i \in 1..Len(book.asks) : book.asks[i].price > 0 /\ book.asks[i].quantity > 0

\* the listed venues that have a snapshot of the symbol, and their latest one
Holding(venues, symbol) ==
    {v \in Range(venues) : <<v, symbol>> \in DOMAIN snapshots /\ snapshots[<<v, symbol>>] # <<>>}
Newest(v, symbol) == snapshots[<<v, symbol>>][Len(snapshots[<<v, symbol>>])]
SideOf(snapshot, side) == IF side = "bids" THEN snapshot.data.bids ELSE snapshot.data.asks

\* the quantity a side offers at a price
RECURSIVE QuantityAt(_, _)
QuantityAt(levels, p) ==
    IF levels = <<>> THEN 0
    ELSE (IF Head(levels).price = p THEN Head(levels).quantity ELSE 0)
         + QuantityAt(Tail(levels), p)

\* the same summed over the newest snapshots of a set of venues
RECURSIVE QuantityOver(_, _, _, _)
QuantityOver(vs, symbol, side, p) ==
    IF vs = {} THEN 0
    ELSE LET v == CHOOSE x \in vs : TRUE
         IN  QuantityAt(SideOf(Newest(v, symbol), side), p)
             + QuantityOver(vs \ {v}, symbol, side, p)

PricesOver(vs, symbol, side) ==
    UNION {{SideOf(Newest(v, symbol), side)[i].price :
               i \in 1..Len(SideOf(Newest(v, symbol), side))} : v \in vs}

\* merged is the best mergedDepth prices of the venues' side, one level per
\* price, with the summed quantity
MergedSideRight(merged, vs, symbol, side, dir) ==
    LET prices == PricesOver(vs, symbol, side)
        kept == {merged[i].price : i \in 1..Len(merged)}
    IN  /\ StrictlySorted(merged, dir)
        /\ Len(merged) = (IF Cardinality(prices) < 20 THEN Cardinality(prices) ELSE 20)
        /\ kept \subseteq prices
        /\ \A i \in 1..Len(merged) :
              merged[i].quantity = QuantityOver(vs, symbol, side, merged[i].price)
        /\ \A p \in prices \ kept : \A q \in kept : IF dir = "desc" THEN q > p ELSE q < p

\* C12: getMergedOrderbook(symbol, venues), the venues listed once each,
\* returns null exactly when no listed venue has a snapshot of the symbol;
\* otherwise each side holds one level per distinct price of the venues' newest
\* snapshots with the summed quantity, bids descending and asks ascending,
\* cut to the best 20 levels.
C12_MergedBook ==
    (call.fn = "getMergedOrderbook" /\ result.returned
        /\ Cardinality(Range(call.venues)) = Len(call.venues))
    => LET vs == Holding(call.venues, call.symbol)
           merged == result.value
       IN  /\ merged.isNull <=> vs = {}
           /\ ~merged.isNull =>
                 /\ MergedSideRight(merged.bids, vs, call.symbol, "bids", "desc")
                 /\ MergedSideRight(merged.asks, vs, call.symbol, "asks", "asc")

\* two venues were merged: a price both offer carries the sum, and the bid
\* side was cut to 20 levels
C12_Witness ==
    /\ call.fn = "getMergedOrderbook"
    /\ result.returned
    /\ Cardinality(Holding(call.venues, call.symbol)) = 2
    /\ ~result.value.isNull
    /\ Len(result.value.bids) = 20
    /\ Cardinality(PricesOver(Holding(call.venues, call.symbol), call.symbol, "bids")) > 20
    /\ \E i \in 1..20 : result.value.bids[i] = [price |-> 22, quantity |-> 3]

\* the cost of a whole side
RECURSIVE Notional(_)
Notional(levels) ==
    IF levels = <<>> THEN 0
    ELSE Head(levels).price * Head(levels).quantity + Notional(Tail(levels))

PricesOf(levels) == {levels[i].price : i \in 1..Len(levels)}

\* the price farthest from the touch: the highest ask for a buy, the lowest bid for a sell
Farthest(levels, side) ==
    CHOOSE p \in PricesOf(levels) :
        \A q \in PricesOf(levels) : IF side = "buy" THEN q <= p ELSE q >= p

\* C13: on a side of total depth D > 0, calculateMarketImpact with size = D
\* returns the price of the farthest level as worstPrice, and a priceImpact > 0
\* when the side has two different prices; with size > D it returns a result
\* whose averagePrice is the volume-weighted price of the whole side.
C13_MarketImpact ==
    (call.fn = "calculateMarketImpact" /\ result.returned /\ Depth(call.levels) > 0)
    => LET D == Depth(call.levels)
           r == result.value
       IN  /\ call.tradeSize = D
              => /\ r.worstPrice = Farthest(call.levels, call.side)
                 /\ Cardinality(PricesOf(call.levels)) >= 2
                    => (r.priceImpact.num > 0 /\ r.priceImpact.den > 0)
           /\ call.tradeSize > D
              => /\ r.averagePrice.den > 0
                 /\ r.averagePrice.num * D = Notional(call.levels) * r.averagePrice.den
                 /\ r.worstPrice = Farthest(call.levels, call.side)

\* an order larger than a side of three prices was filled over what exists
C13_Witness ==
    /\ call.fn = "calculateMarketImpact"
    /\ result.returned
    /\ Cardinality(PricesOf(call.levels)) = 3
    /\ call.tradeSize > Depth(call.levels)
    /\ result.value.averagePrice.den = Depth(call.levels)
    /\ result.value.priceImpact.num > 0

RECURSIVE Flatten(_)
Flatten(seqs) == IF seqs = <<>> THEN <<>> ELSE Head(seqs) \o Flatten(Tail(seqs))

\* the levels at positions i and i + 1 of the flattened clusters share a cluster
SameCluster(clusters, i) ==
    \E k \in 1..Len(clusters) :
        LET before == Len(Flatten(SubSeq(clusters, 1, k - 1)))
        IN  before < i /\ i + 1 <= before + Len(clusters[k])

\* the relative price gap of two levels is at most 0.5% of the lower price
GapWithin(lower, upper) == (upper.price - lower.price) * 1000 <= 5 * lower.price

\* C14: the clusters are the side in ascending price order cut into
\* non-empty consecutive groups; neighbours with equal quantities and a gap
\* of at most 0.5% share a cluster; neighbours with a gap above 0.5% never
\* do, whatever their quantities.
C14_ClusteringRule ==
    (call.fn = "enhancedClusterLevels" /\ result.returned)
    => LET sorted == SortLevels(call.levels, "asc")
           clusters == result.value
       IN  /\ Flatten(clusters) = sorted
           /\ \A k \in 1..Len(clusters) : Len(clusters[k]) > 0
           /\ \A i \in 1..(Len(sorted) - 1) :
                /\ (sorted[i].quantity = sorted[i + 1].quantity
                        /\ GapWithin(sorted[i], sorted[i + 1]))
                   => SameCluster(clusters, i)
                /\ ~GapWithin(sorted[i], sorted[i + 1]) => ~SameCluster(clusters, i)

\* a chain 200, 201, 202 of equal quantities ended up as one cluster
C14_Witness ==
    /\ call.fn = "enhancedClusterLevels"
    /\ result.returned
    /\ Len(result.value) = 1
    /\ Len(result.value[1]) = 3
    /\ result.value[1][1].price = 200
    /\ result.value[1][3].price = 202

ZonesOfType(zones, type) == SelectSeq(zones, LAMBDA z : z.type = type)

\* the zone describes the cluster: its lowest and highest price and its total quantity
Describes(zone, cluster) ==
    /\ zone.priceStart \in PricesOf(cluster)
    /\ zone.priceEnd \in PricesOf(cluster)
    /\ \A p \in PricesOf(cluster) : zone.priceStart <= p /\ p <= zone.priceEnd
    /\ zone.volume = Depth(cluster)

\* on one side of the snapshot, the zones are the clusters holding at least
\* 10% of the side's quantity
AdmissionOn(levels, type) ==
    LET clusters == enhancedClusterLevels(levels)
        zones == ZonesOfType(result.value, type)
        Admitted == {k \in 1..Len(clusters) : Depth(clusters[k]) * 10 >= Depth(levels)}
    IN  /\ Len(zones) = Cardinality(Admitted)
        /\ \A k \in 1..Len(clusters) :
              (k \in Admitted) <=> (\E i \in 1..Len(zones) : Describes(zones[i], clusters[k]))

\* C15: on every side of every snapshot a cluster is emitted as a zone
\* exactly when its total quantity is at least 10% of the side's total, and
\* the zone carries the cluster's lowest price, highest price and total quantity.
C15_Admission ==
    (call.fn = "detectPressureZones" /\ result.returned)
    => /\ AdmissionOn(call.data.bids, "bid")
       /\ AdmissionOn(call.data.asks, "ask")

\* bids 100.00, 100.01, 100.02 of quantity 5 each in a side of 20 gave the
\* zone [100.00, 100.02] of volume 15
C15_Witness ==
    /\ call.fn = "detectPressureZones"
    /\ result.returned
    /\ Len(call.data.bids) = 4
    /\ \A i \in 1..4 : call.data.bids[i].quantity = 5
    /\ PricesOf(call.data.bids) = {9000, 10000, 10001, 10002}
    /\ \E i \in 1..Len(result.value) :
          /\ result.value[i].type = "bid"
          /\ result.value[i].priceStart = 10000
          /\ result.value[i].priceEnd = 10002
          /\ result.value[i].volume = 15

\* C16: the zones returned by detectPressureZones are in descending order of
\* intensity over the whole list, bid and ask zones together.
C16_SortedByIntensity ==
    (call.fn = "detectPressureZones" /\ result.returned)
    => \A i, j \in 1..Len(result.value) :
          i < j => result.value[i].intensity.num * result.value[j].intensity.den
                      >= result.value[j].intensity.num * result.value[i].intensity.den

\* the spread samples the trend is computed from: the last 10 at most
RecentSpreads(venue, symbol) ==
    LET history == IF <<venue, symbol>> \in Keys THEN spreadHistory[<<venue, symbol>>]
                   ELSE <<>>
        first == IF Len(history) > 10 THEN Len(history) - 9 ELSE 1
    IN  [i \in 1..(Len(history) - first + 1) |-> history[first + i - 1].value]

\* C17: when the last up to 10 spread samples (at least 2) are strictly
\* increasing the trend is 'widening', when strictly decreasing 'narrowing',
\* when all equal 'stable', whatever the size of the increments.
C17_SpreadTrend ==
    (call.fn = "calculateAdvancedSpreadAnalysis" /\ result.returned)
    => LET recent == RecentSpreads(call.venue, call.symbol)
           Steps == 1..(Len(recent) - 1)
       IN  Len(recent) >= 2
           => /\ (\A i \in Steps : recent[i] < recent[i + 1])
                 => result.value.trend = "widening"
              /\ (\A i \in Steps : recent[i] > recent[i + 1])
                 => result.value.trend = "narrowing"
              /\ (\A i \in Steps : recent[i] = recent[i + 1])
                 => result.value.trend = "stable"

\* the historical points of the key inside the window of twice the horizon
PointsInWindow(venue, symbol, timeHorizon, now) ==
    LET points == IF <<venue, symbol>> \in Keys THEN historicalData[<<venue, symbol>>]
                  ELSE <<>>
    IN  Cardinality({i \in 1..Len(points) : points[i].timestamp >= now - 2 * timeHorizon})

\* C18: generateMLPrediction, asked with a positive horizon, returns the
\* 'Insufficient data' result with confidence 0 and no extracted feature
\* when fewer than 10 historical points lie inside its window, and a computed
\* prediction when 10 or more do; calculateAdvancedSpreadAnalysis of a key
\* without spread sample returns the all-zero 'normal'/'stable' result.
C18_SparseData ==
    /\ (call.fn = "generateMLPrediction" /\ result.returned /\ call.timeHorizon > 0)
       => LET count == PointsInWindow(call.venue, call.symbol, call.timeHorizon, call.now)
              r == result.value
          IN  /\ count < 10
                 => /\ r.factors = <<"Insufficient data">>
                    /\ r.confidence = "0"
                    /\ r.priceTarget = "0"
                    /\ r.neuralNetworkOutput = <<"0.5">>
              /\ count >= 10
                 => /\ r.factors # <<"Insufficient data">>
                    /\ Len(r.factors) > 0
                    /\ r.neuralNetworkOutput.outputFrom = r.confidence.confidenceFrom
                    /\ r.venue = call.venue
    /\ (call.fn = "calculateAdvancedSpreadAnalysis" /\ result.returned
           /\ RecentSpreads(call.venue, call.symbol) = <<>>)
       => LET r == result.value
          IN  /\ r.current = 0 /\ r.min = 0 /\ r.max = 0
              /\ r.average.num = 0 /\ r.volatility.sqrtOf.num = 0
              /\ r.tightness = "normal" /\ r.trend = "stable"
              /\ r.historicalSpreads = <<>>

\* twelve points are stored, fewer than ten of them inside the window asked
\* for, and the prediction reports insufficient data
C18_Witness ==
    /\ call.fn = "generateMLPrediction"
    /\ result.returned
    /\ call.timeHorizon > 0
    /\ Len(historicalData[<<call.venue, call.symbol>>]) = 12
    /\ PointsInWindow(call.venue, call.symbol, call.timeHorizon, call.now) < 10
    /\ result.value.factors = <<"Insufficient data">>

\* the levels of a side as price-quantity pairs
Pairs(levels) == {<<levels[i].price, levels[i].quantity>> : i \in 1..Len(levels)}

\* three snapshots of the scenario book were ingested for the key, and no other
ScenarioIngested ==
    /\ Len(historicalData[MainKey]) = 3
    /\ \A i \in 1..3 :
          /\ historicalData[MainKey][i].orderbook.bids = ScenarioBook.bids
          /\ historicalData[MainKey][i].orderbook.asks = ScenarioBook.asks

\* C19: after three snapshots of one venue with bids 100, 101, 102 and asks
\* 103, 104, 105 of quantity 1, the merged orderbook of that venue has exactly
\* those levels with quantity 1, its spread is 1, and the volume profile of
\* the snapshots at priceStep = 1 has exactly 6 buckets of one transaction each.
C19_Scenario ==
    (/\ call.fn = "calculateVolumeProfile"
     /\ result.returned
     /\ <<call.venue, call.symbol>> = MainKey
     /\ call.priceStep = 1
     /\ call.timeRange = 0
     /\ ScenarioIngested)
    => LET merged == getMergedOrderbook(MainKey[2], <<MainKey[1]>>)
       IN  /\ ~merged.isNull
           /\ Len(merged.bids) = 3 /\ Pairs(merged.bids) = Pairs(ScenarioBook.bids)
           /\ Len(merged.asks) = 3 /\ Pairs(merged.asks) = Pairs(ScenarioBook.asks)
           /\ calculateSpread(merged) = 1
           /\ Len(result.value) = 6
           /\ \A i \in 1..Len(result.value) : result.value[i].transactions = 1

\* the quantity of one side priced inside bucket p in the snapshots
\* timestamped inside slot t; the bucket is [low, low + step) with
\* step = (max - min) / 50, the slot [start, start + window / 20)
CellSum(side, t, p) ==
    LET obs == call.orderbooks
        lo == SetMin(allPricesOf(obs))
        hi == SetMax(allPricesOf(obs))
        InSlot(i) ==
            /\ 20 * obs[i].timestamp >= 20 * (call.now - call.timeWindow) + t * call.timeWindow
            /\ 20 * obs[i].timestamp
                  < 20 * (call.now - call.timeWindow) + (t + 1) * call.timeWindow
        Inside(price) ==
            /\ 50 * price >= 50 * lo + p * (hi - lo)
            /\ 50 * price < 50 * lo + (p + 1) * (hi - lo)
        LevelsOf(i) == IF side = "bid" THEN obs[i].bids ELSE obs[i].asks
        Hits == {<<i, j>> \in (1..Len(obs)) \X (1..3) :
                    /\ j <= Len(LevelsOf(i))
                    /\ InSlot(i)
                    /\ Inside(LevelsOf(i)[j].price)}
        RECURSIVE Total(_)
        Total(S) == IF S = {} THEN 0
                    ELSE LET h == CHOOSE x \in S : TRUE
                         IN  LevelsOf(h[1])[h[2]].quantity + Total(S \ {h})
    IN  Total(Hits)

\* the cells emitted for a side, slot and bucket
CellsAt(side, t, p) ==
    LET lo == SetMin(allPricesOf(call.orderbooks))
        hi == SetMax(allPricesOf(call.orderbooks))
    IN  {i \in 1..Len(result.value) :
            /\ result.value[i].type = side
            /\ result.value[i].timeSlot = t
            /\ result.value[i].priceLevel.num = 50 * lo + p * (hi - lo)}

TopTen(levels) ==
    LET n == IF Len(levels) < 10 THEN Len(levels) ELSE 10
    IN  Depth(SubSeq(levels, 1, n))

\* C21: for every snapshot, one without volume included, detectImbalances
\* returns 'bid'/'bullish' exactly when the returned ratio is above 0.65,
\* 'ask'/'bearish' exactly when it is below 0.35, 'balanced'/'neutral'
\* otherwise; the ratio is top-10 bid volume over top-10 bid plus ask volume
\* when there is volume, and the intensity is |ratio - 0.5| * 2.
C21_ImbalanceClasses ==
    (call.fn = "detectImbalances" /\ result.returned)
    => LET r == result.value
           bid == TopTen(call.data.bids)
           ask == TopTen(call.data.asks)
           above == r.ratio.num * 100 > 65 * r.ratio.den
           below == r.ratio.num * 100 < 35 * r.ratio.den
       IN  /\ r.ratio.den > 0
           /\ (r.direction = "bid" /\ r.prediction = "bullish") <=> above
           /\ (r.direction = "ask" /\ r.prediction = "bearish") <=> below
           /\ (r.direction = "balanced" /\ r.prediction = "neutral")
                 <=> (~above /\ ~below)
           /\ bid + ask > 0 => r.ratio.num * (bid + ask) = bid * r.ratio.den
           /\ r.intensity.num * r.ratio.den
                 = Abs(2 * r.ratio.num - r.ratio.den) * r.intensity.den

\* the last n items of a sequence
NewestOf(items, n) ==
    IF Len(items) > n THEN [i \in 1..n |-> items[Len(items) - n + i]] ELSE items

\* C22: over any sequence of detectPressureZones calls the zone history holds
\* at most 1000 zones, and after each call it is the zones held before
\* followed by the zones just returned, in the order returned, cut to the
\* newest 1000.
C22_ZoneHistory ==
    [][/\ Len(historicalZones') <= 1000
       /\ historicalZones' = NewestOf(historicalZones \o result'.value, 1000)]_vars

\* the history is full and the zones of the first call have been evicted
C22_Witness ==
    /\ Len(historicalZones) = 1000
    /\ historicalZones[1].timestamp > 1
    /\ historicalZones[1000].timestamp = call.count

\* the history the last call looked into: the zones held before it returned
HistoryBefore ==
    SubSeq(historicalZones, 1, Len(historicalZones) - Len(result.value))

\* a zone on the same side whose midpoint is within 2% of the cluster's mean
\* price, observed less than 5 minutes before the snapshot
IsMatch(zone, cluster, type, timestamp) ==
    LET n == Len(cluster)
        S == Notional([i \in 1..n |-> [price |-> cluster[i].price, quantity |-> 1]])
    IN  /\ zone.type = type
        /\ Abs(n * (zone.priceStart + zone.priceEnd) - 2 * S) * 25 < S
        /\ timestamp - zone.timestamp >= 0
        /\ timestamp - zone.timestamp < 300000

\* the movement the matches give: stable below 3 matches, else the mean
\* intensity change over the 5 newest matches against +5 and -5
MovementFrom(matches) ==
    LET recent == NewestOf(matches, 5)
        k == Len(recent)
        a == recent[1].intensity
        b == recent[k].intensity
        change == b.num * a.den - a.num * b.den
        limit == 5 * (k - 1) * a.den * b.den
    IN  IF Len(matches) < 3 THEN "stable"
        ELSE IF change > limit THEN "strengthening"
        ELSE IF change < 0 - limit THEN "weakening"
        ELSE "stable"

\* C23: the prediction of every emitted bid zone is the one its matches
\* give, a match being a historical zone of the same side whose midpoint is
\* within 2% of the cluster's price and that was observed within the 5
\* minutes before the snapshot; below 3 matches it is 'stable' with the low
\* confidence 0.3.
C23_PredictionLookup ==
    (call.fn = "detectPressureZones" /\ result.returned)
    => LET clusters == enhancedClusterLevels(call.data.bids)
       IN  \A k \in 1..Len(clusters) : \A i \in 1..Len(result.value) :
              (result.value[i].type = "bid"
                  /\ result.value[i].priceStart = clusters[k][1].price)
              => LET matches == SelectSeq(HistoryBefore, LAMBDA z :
                                    IsMatch(z, clusters[k], "bid", call.data.timestamp))
                 IN  /\ result.value[i].prediction.movement = MovementFrom(matches)
                     /\ Len(matches) < 3 => result.value[i].prediction.confidence = 30


\* a connect attempt of the venue succeeded in this step
ConnectSucceeded(v) ==
    connectsInFlight'[v] < connectsInFlight[v] /\ connectionStates'[v] = "connected"

\* this step is the third consecutive poll failure of a venue: it marks the
\* venue failed and, unless the manager is destroyed, schedules a reconnect
\* that starts from attempt 0
ThirdPollFailure(v) ==
    /\ lastEvent'.op = "poll" /\ lastEvent'.venue = v /\ lastEvent'.failed
    /\ connectionStates'[v] = "failed"
    /\ consecutiveErrors'[v] >= FailureThreshold
    /\ isDestroyed \/ reconnectTimeouts'[v] = 0

\* C24: a successful connect or reconnect of a venue leaves its
\* reconnect-attempt counter and its consecutive-error counter at 0, and a
\* venue that is connected stops being connected only by disconnect() or by
\* a third consecutive poll failure, which schedules a reconnect from attempt 0
C24_CountersReset ==
    [][\A v \in Venues :
          /\ ConnectSucceeded(v) =>
                reconnectAttempts'[v] = 0 /\ consecutiveErrors'[v] = 0
          /\ (connectionStates[v] = "connected" /\ connectionStates'[v] # "connected") =>
                (isDestroyed' /\ ~isDestroyed) \/ ThirdPollFailure(v)]_vars


\* the canonical snapshot of a venue's book with bids GoodBids and asks GoodAsks
CanonicalName(v) ==
    CASE v = "binance" -> [venue |-> "Binance", symbol |-> "BTCUSDT"]
      [] v = "okx" -> [venue |-> "OKX", symbol |-> "BTC-USDT"]
      [] v = "bybit" -> [venue |-> "Bybit", symbol |-> "BTCUSDT"]

GoodSnapshot(v) ==
    [venue |-> CanonicalName(v).venue, symbol |-> CanonicalName(v).symbol,
     bids |-> <<[price |-> 2, quantity |-> 1], [price |-> 1, quantity |-> 1]>>,
     asks |-> <<[price |-> 3, quantity |-> 1], [price |-> 4, quantity |-> 2]>>]

\* a connect attempt or a poll of v answered by Healthy(v) connects the venue,
\* respectively delivers the canonical snapshot without an error
AcceptsNative(v) ==
    /\ validateData(v, NativeBody(v, GoodBids, GoodAsks))
    /\ connectTry(v, Healthy(v))
    /\ LET try == pollTry(v, Healthy(v), subscribers, {})
       IN  ~try.threw /\ try.notified /\ try.snapshot = GoodSnapshot(v)

\* C25: whenever a request of a venue is in flight, an answer in the venue's
\* native schema with valid bids and asks passes the venue's validation and
\* is translated into the canonical snapshot: the connect attempt succeeds
\* and the poll delivers
C25_NativePayloadAccepted ==
    \A v \in Venues : (connectsInFlight[v] > 0 \/ PollsOf(v) > 0) => AcceptsNative(v)


\* volumeRatio x ln(levelCount) x (largest quantity / average quantity) x 100
\* of a cluster in a side, with Math.log in thousandths
LogIntensity(cluster, levels) ==
    Quotient(log(Len(cluster)) * maxQuantityOf(cluster) * Len(cluster), Depth(levels) * 10)

IntensityOn(levels, type) ==
    LET clusters == enhancedClusterLevels(levels)
        zones == ZonesOfType(result.value, type)
    IN  \A i \in 1..Len(zones) : \A k \in 1..Len(clusters) :
            Describes(zones[i], clusters[k]) =>
                compareQuotient(zones[i].intensity, LogIntensity(clusters[k], levels)) = 0

\* C26: the intensity of every emitted zone is
\* volumeRatio x ln(levelCount) x (largest / average level quantity) x 100,
\* whatever the number of levels in its cluster, one level included
C26_Intensity ==
    (call.fn = "detectPressureZones" /\ result.returned)
    => /\ IntensityOn(call.data.bids, "bid")
       /\ IntensityOn(call.data.asks, "ask")


\* the polling interval timers of a venue that are running
RunningTimers(v) == {i \in IntervalIds : <<v, i>> \in intervals}

\* C27: every venue has at most one running polling interval timer, and a
\* running timer is the one the manager holds in pollingIntervals
C27_OnePollingTimer ==
    \A v \in Venues :
        /\ Cardinality(RunningTimers(v)) <= 1
        /\ \A i \in RunningTimers(v) : pollingIntervals[v] = i


\* C28: a poll hands a snapshot to a subscriber only while the venue's
\* connection state is "connected"
C28_DeliveredWhileConnected ==
    (lastEvent.op = "poll" /\ lastEvent.notified /\ lastEvent.invoked # <<>>)
    => connectionStates[lastEvent.venue] = "connected"


\* C29: from the return of disconnect() on, the connection state of every
\* venue is "disconnected"
C29_DisconnectedForGood ==
    isDestroyed => \A v \in Venues : connectionStates[v] = "disconnected"


RECURSIVE VolumeOf(_)
VolumeOf(zones) == IF zones = <<>> THEN 0 ELSE Head(zones).volume + VolumeOf(Tail(zones))

\* the zones of one side: at most 10, price ranges pairwise disjoint, volumes
\* summing to no more than the side's quantity
ZoneLimitsOn(levels, type) ==
    LET zones == ZonesOfType(result.value, type)
    IN  /\ Len(zones) <= 10
        /\ \A i, j \in 1..Len(zones) :
              i # j => \/ zones[i].priceEnd < zones[j].priceStart
                       \/ zones[j].priceEnd < zones[i].priceStart
        /\ VolumeOf(zones) <= Depth(levels)

\* C30: in every result of detectPressureZones each side contributes at most
\* 10 zones, the zones of one side cover pairwise disjoint price ranges, and
\* their volumes sum to no more than the side's total quantity
C30_ZoneLimits ==
    (call.fn = "detectPressureZones" /\ result.returned)
    => /\ ZoneLimitsOn(call.data.bids, "bid")
       /\ ZoneLimitsOn(call.data.asks, "ask")

\* ten far-apart bids of equal quantity, each exactly 10% of the side, gave
\* ten bid zones holding the whole side
C30_Witness ==
    /\ call.fn = "detectPressureZones"
    /\ result.returned
    /\ Len(call.data.bids) = 10
    /\ Len(ZonesOfType(result.value, "bid")) = 10
    /\ VolumeOf(ZonesOfType(result.value, "bid")) = Depth(call.data.bids)

====
